---- MODULE Spec2Model ----
(***************************************************************************)
(* State-machine model of the get-grass automation scripts.                *)
(*                                                                         *)
(*   Spec         grass-desktop_main.py : main, configure_grass and the    *)
(*                helpers they call (xdotool automation of Grass desktop)  *)
(*   SpecBrowser  grass_main.py : main (selenium automation of the         *)
(*                browser extension)                                       *)
(*                                                                         *)
(* The external world (the Grass process, xdotool, the file system, the    *)
(* browser, the user's Ctrl+C) is a nondeterministic choice at each point  *)
(* where the script observes it.                                           *)
(***************************************************************************)
EXTENDS Integers, Sequences, FiniteSets, TLC

(***************************************************************************)
(* Bounds of the model.                                                    *)
(***************************************************************************)
\* largest value of the MAX_RETRY_MULTIPLIER environment variable explored
MaxMultiplier == 2
\* largest max_attempts a helper function is called with by itself
MaxAttempts == 3
\* longest identifier / secret text explored
MaxTextLen == 2

\* how deep below the extension directory a file can be
MaxDepth == 3

(***************************************************************************)
(* Program constants.                                                      *)
(***************************************************************************)
\* exit status of sys.exit(1)
EXIT_FAILURE == 1
\* exit status of a Python script that an uncaught KeyboardInterrupt ends
EXIT_SIGINT == 130
\* Popen.returncode of a child ended by SIGTERM / SIGKILL
RC_SIGTERM == -15
RC_SIGKILL == -9
\* bounds of random.randint for the backoff of the window search
WINDOW_SEARCH_BACKOFF_MIN_FACTOR == 11
WINDOW_SEARCH_BACKOFF_MAX_FACTOR == 31

VARIABLES
    \* ---- grass-desktop_main.py ----
    pc,                     \* position of main / configure_grass
    try_autologin,          \* TRY_AUTOLOGIN.lower() == "true"
    email_set,              \* an identifier is in the environment
    password_set,           \* a secret is in the environment
    should_try_autologin,   \* main's local of that name
    max_retry_multiplier,   \* main's local of that name
    flag,                   \* the file ~/.grass-configured exists
    flagAtEntry,            \* flag when configure_grass was entered
    procs,                  \* the Grass processes a launch returned, in order
    grass_proc,             \* main's handle (index in procs, 0: None)
    current_grass_proc,     \* configure_grass's local handle
    attempt,                \* configure_grass's loop index
    keyStep,                \* next key of KeyPlan to inject
    windows,                \* configure_grass's local: result of the last probe
    focused,                \* window id last given to windowfocus (0: none)
    cfgResult,              \* "none" | "True" | "False" | "raised"
    loggedIn,               \* the submitted credentials logged the user in
    exitCode,               \* exit status of the script (-1: still running)
    exitVia,                \* which exit of main was taken
    hist,                   \* what the run did so far (counters)
    att,                    \* what the current configuration attempt did
    \* ---- grass_main.py ----
    bpc,                    \* position of main
    require_auth,           \* REQUIRE_AUTH_FOR_DOWNLOADS is "true"
    extension_urls_set,     \* EXTENSION_URLS is set (one URL per extension)
    crx_kinds,              \* per extension: download URL is "cws" | "provider"
    sessions,               \* every browser session started: is it live
    driver,                 \* main's local (index in sessions, 0: None)
    temp_driver_for_download, \* main's local of that name
    attempt_main,           \* main's autologin loop index
    autologin_successful,   \* main's local of that name
    manual_mode_activated,  \* main's local of that name
    ext_i,                  \* index of the extension a loop is at
    crx_file_paths,         \* number of extension paths collected so far
    temp_handles,           \* extensions in temp_extension_window_handles
    extension_window_handles, \* extensions main holds a window handle for
    bhist,                  \* what the run did so far
    \* ---- one helper function called by itself ----
    fn,                     \* the function that was called ("none": none yet)
    fin,                    \* its arguments and what it met
    fout,                   \* what it returned / left behind
    \* ---- grass-node_main.py ----
    node                    \* main's position and locals, the sessions started

dvars == <<pc, try_autologin, email_set, password_set, should_try_autologin,
           max_retry_multiplier, flag, flagAtEntry, procs, grass_proc,
           current_grass_proc, attempt, keyStep, windows, focused, cfgResult,
           loggedIn, exitCode, exitVia, hist, att>>

bvars == <<bpc, require_auth, extension_urls_set, crx_kinds, sessions, driver,
           temp_driver_for_download, attempt_main, autologin_successful,
           manual_mode_activated, ext_i, crx_file_paths, temp_handles,
           extension_window_handles, bhist>>

cvars == <<fn, fin, fout>>

nvars == <<node>>

vars == <<dvars, bvars, cvars, nvars>>

(***************************************************************************)
(* grass-desktop_main.py: processes                                        *)
(***************************************************************************)

\* exit codes of a Grass process that ends on its own
SelfExitCodes == {0, 1}

\* A started process: the OS side (alive, code) and the Popen side
\* (returncode: <<>> is None), plus what the script sent to it (term, kill,
\* sigs in the order sent) and what the wait of the grace period met.
NewProc(alive, code) ==
    [alive |-> alive, code |-> code,
     returncode |-> IF alive THEN <<>> ELSE <<code>>,
     term |-> FALSE, kill |-> FALSE, self |-> ~alive,
     sigs |-> <<>>, grace |-> "none"]

\* The process may end on its own at any time; the script has not looked.
ExitOutcomes(r) ==
    IF r.alive
    THEN {r} \cup {[r EXCEPT !.alive = FALSE, !.code = c, !.self = TRUE] :
                   c \in SelfExitCodes}
    ELSE {r}

\* proc.poll(): the process may have ended since it was last observed.
PollOutcomes(r) ==
    IF r.alive
    THEN {r} \cup {[r EXCEPT !.alive = FALSE, !.code = c,
                             !.returncode = <<c>>, !.self = TRUE] :
                   c \in SelfExitCodes}
    ELSE {[r EXCEPT !.returncode = <<r.code>>]}

\* What one launch attempt meets: the executable is missing, the process is
\* still running after the settle wait, or it has ended by then.
LaunchOutcomes == {"missing", "alive", "dead"}

RECURSIVE LaunchFrom(_, _, _, _)
LaunchFrom(k, max_attempts, outs, acc) ==
    IF k >= max_attempts
    THEN [acc EXCEPT !.result = 0]
    ELSE IF outs[k + 1] = "missing"
    THEN [acc EXCEPT !.result = 0, !.popens = @ + 1]
    ELSE IF outs[k + 1] = "alive"
    THEN [started |-> Append(acc.started, NewProc(TRUE, 0)),
          result |-> Len(acc.started) + 1,
          popens |-> acc.popens + 1, settles |-> acc.settles + 1]
    ELSE LET now == [started |-> Append(acc.started,
                                        NewProc(FALSE, EXIT_FAILURE)),
                     result |-> 0,
                     popens |-> acc.popens + 1,
                     settles |-> acc.settles + 1]
         IN  IF k < max_attempts - 1
             THEN LaunchFrom(k + 1, max_attempts, outs, now)
             ELSE now

\* (mutation: a missing executable is retried like a process that ended)
launch_RetryOnMissing(max_attempts, outs) ==
    LaunchFrom(0, max_attempts,
               [i \in 1..max_attempts |->
                   IF outs[i] = "missing" THEN "dead" ELSE outs[i]],
               [started |-> <<>>, result |-> 0, popens |-> 0, settles |-> 0])

\* (mutation: the process of the first start is returned without looking
\* at whether it is still running)
launch_NoLivenessCheck(max_attempts, outs) ==
    IF max_attempts < 1 \/ outs[1] = "missing"
    THEN [started |-> <<>>, result |-> 0,
          popens |-> IF max_attempts < 1 THEN 0 ELSE 1, settles |-> 0]
    ELSE [started |-> <<NewProc(outs[1] = "alive",
                                IF outs[1] = "alive" THEN 0 ELSE EXIT_FAILURE)>>,
          result |-> 1, popens |-> 1, settles |-> 1]

\* launch_grass_with_retries: the processes it started, in order, the one it
\* returns (index in started, 0: None), and how many Popen calls and settle
\* waits it made.
launch_grass_with_retries(max_attempts, outs) ==
    LaunchFrom(0, max_attempts, outs,
               [started |-> <<>>, result |-> 0, popens |-> 0, settles |-> 0])

LaunchInputs(max_attempts) == [1..max_attempts -> LaunchOutcomes]

\* the process a launch hands to its caller (the processes that had ended
\* at their liveness check are referenced by nobody afterwards)
Returned(L) == IF L.result = 0 THEN <<>> ELSE <<L.started[L.result]>>

\* what proc.wait(timeout=PROCESS_TERMINATE_TIMEOUT) meets after
\* terminate(): the process ends in time, by its own handler with code 0 or
\* by the signal, or the timeout expires
GraceOutcomes == {"exit0", "sigterm", "timeout"}

\* (mutation: the forced kill is sent whatever the wait met)
Terminate_AlwaysKill(r, g) ==
    [r EXCEPT !.alive = FALSE, !.term = TRUE, !.kill = TRUE,
              !.sigs = @ \o <<"SIGTERM", "SIGKILL">>,
              !.grace = IF g = "timeout" THEN "expired" ELSE "exited",
              !.code = RC_SIGKILL, !.returncode = <<RC_SIGKILL>>]

\* the body of `if proc.poll() is None:`: terminate(), wait for the grace
\* period, and kill() then wait() only when TimeoutExpired was raised
Terminate(r, g) ==
    LET t == [r EXCEPT !.alive = FALSE, !.term = TRUE,
                       !.sigs = Append(@, "SIGTERM"),
                       !.grace = IF g = "timeout" THEN "expired"
                                                  ELSE "exited"]
    IN  IF g = "timeout"
        THEN [t EXCEPT !.kill = TRUE, !.sigs = Append(@, "SIGKILL"),
                       !.code = RC_SIGKILL, !.returncode = <<RC_SIGKILL>>]
        ELSE LET c == IF g = "exit0" THEN 0 ELSE RC_SIGTERM
             IN  [t EXCEPT !.code = c, !.returncode = <<c>>]

\* kill_process after its poll(): nothing for a process already ended;
\* otherwise SIGTERM, and SIGKILL only when the grace period expires.
KillOutcomes(r) ==
    IF ~r.alive
    THEN {[r EXCEPT !.returncode = <<r.code>>]}
    ELSE {Terminate(r, g) : g \in GraceOutcomes}

\* (mutation: no poll, the signals are sent to any process)
kill_process_NoPoll(r) == {Terminate(r, g) : g \in GraceOutcomes}

kill_process(r) == UNION {KillOutcomes(q) : q \in PollOutcomes(r)}

\* the exit status the OS reports for sys.exit(n)
ExitStatus(n) == n % 256

(***************************************************************************)
(* grass-desktop_main.py: window probe                                     *)
(***************************************************************************)

\* window-id lists xdotool search can print
WindowLists == {<<1>>, <<1, 2>>}

\* What one xdotool search meets: exit 0 with the ids printed (possibly
\* none), a non-zero exit (CalledProcessError), or xdotool missing.
SearchOutcomes ==
    {[kind |-> "out", wins |-> w] : w \in WindowLists \cup {<<>>}}
    \cup {[kind |-> "err", wins |-> <<>>], [kind |-> "noxdo", wins |-> <<>>]}

\* the search loop from attempt k on; acc: what the call did so far
RECURSIVE SearchFrom(_, _, _, _)
SearchFrom(k, max_attempts, outs, acc) ==
    IF k >= max_attempts
    THEN acc
    ELSE LET now == [acc EXCEPT !.searches = @ + 1,
                                !.events = Append(@, "search")]
         IN  IF outs[k + 1].kind = "out" /\ outs[k + 1].wins # <<>>
             THEN [now EXCEPT !.found = TRUE, !.windows = outs[k + 1].wins]
             ELSE IF outs[k + 1].kind = "noxdo"
             THEN [now EXCEPT !.noxdo = TRUE]
             ELSE SearchFrom(k + 1, max_attempts, outs,
                             IF k < max_attempts - 1
                             THEN [now EXCEPT !.events = Append(@, "backoff")]
                             ELSE now)

\* a call of search_windows_by_name before its loop: the initial sleep
SearchStart == [found |-> FALSE, windows |-> <<>>, searches |-> 0,
                events |-> <<"initial_wait">>, noxdo |-> FALSE]

\* is outs[i] a search that finds windows
Hit(outs, i) == outs[i].kind = "out" /\ outs[i].wins # <<>>

\* (mutation: the loop goes on after a search found windows and the list
\* of the last successful search is returned)
search_NoStop(max_attempts, outs) ==
    LET hits == {i \in 1..max_attempts : Hit(outs, i)}
        last == CHOOSE i \in hits : \A j \in hits : j <= i
    IN  [found |-> hits # {},
         windows |-> IF hits = {} THEN <<>> ELSE outs[last].wins,
         searches |-> max_attempts,
         events |-> <<"initial_wait">> \o [i \in 1..max_attempts |-> "search"],
         noxdo |-> \E i \in 1..max_attempts : outs[i].kind = "noxdo"]

\* search_windows_by_name: found = FALSE is the None result; searches is
\* the number of xdotool searches made, events the sleeps and searches in
\* order.
search_windows_by_name(max_attempts, outs) ==
    SearchFrom(0, max_attempts, outs, SearchStart)

\* the backoff slept after the failed search of loop index k (the code's
\* `attempt`), jitter being what random.randint returned
backoff_time(jitter, k, retry_multiplier) ==
    jitter * (k + 1) * retry_multiplier

SearchInputs(max_attempts) == [1..max_attempts -> SearchOutcomes]

(***************************************************************************)
(* grass-desktop_main.py: configure_grass and main                         *)
(***************************************************************************)

\* the injections of one configuration attempt, in order
KeyPlan == <<"Tab", "Tab", "Tab", "Tab", "Return", "ID", "Tab", "PW",
             "Return", "Tab", "Tab", "space", "space", "Escape">>

\* the Return that submits the credentials follows the secret
IsSubmit(i) == i > 1 /\ KeyPlan[i] = "Return" /\ KeyPlan[i - 1] = "PW"

launch_configure_max_attempts == max_retry_multiplier

\* first, reprobe: the lists the two probes of the attempt returned
NoAttempt == [probe1 |-> FALSE, probe2 |-> FALSE, focus |-> FALSE,
              keysOK |-> 0, keyFail |-> FALSE,
              first |-> <<>>, reprobe |-> <<>>]

NoHistory == [searched |-> FALSE, focusCalled |-> FALSE, injected |-> FALSE,
              relaunched |-> FALSE, writes |-> 0, creations |-> 0,
              kills |-> 0, failures |-> 0,
              probeMiss |-> FALSE, probeHit |-> FALSE, focusFail |-> FALSE,
              injectFail |-> FALSE, writeFail |-> FALSE,
              relaunchFail |-> FALSE, interrupted |-> FALSE,
              submitted |-> FALSE, retyped |-> FALSE, noxdo |-> FALSE]

\* grass-node_main.py before main: no session started, driver unbound (0),
\* no handle kept.  passes: the setup passes begun; lost: a refresh check of
\* the monitoring loop failed; tick: flips at every failed round of the
\* monitoring loop
NodeIdle ==
    [pc |-> "off", attempt |-> 0, n_ext |-> 0, ext |-> 0, sessions |-> <<>>,
     driver |-> 0, handles |-> <<>>, exit |-> "none", error |-> "none",
     passes |-> 0, lost |-> FALSE, tick |-> FALSE]

\* grass-node_main.py is not run
NodeOff == node = NodeIdle

\* no helper function is called by itself
CallsOff ==
    /\ fn = "none"
    /\ fin = <<>>
    /\ fout = <<>>

\* what a run of grass_main.py did so far: nothing.  attempts / failed:
\* autologin attempts begun / ended by an exception; done: the steps the
\* current attempt completed; observed: <<extension, session>> for every
\* 'Grass is Connected' marker seen in the current attempt
NoBrowserHistory ==
    [manualLogin |-> FALSE, lost |-> FALSE, interrupted |-> FALSE,
     attempts |-> 0, failed |-> 0, monitored |-> FALSE,
     done |-> {}, observed |-> {}]

\* grass_main.py is not running
BrowserOff ==
    /\ bpc = "off"
    /\ require_auth = FALSE
    /\ extension_urls_set = FALSE
    /\ crx_kinds = <<>>
    /\ sessions = <<>>
    /\ driver = 0
    /\ temp_driver_for_download = 0
    /\ attempt_main = 0
    /\ autologin_successful = FALSE
    /\ manual_mode_activated = FALSE
    /\ ext_i = 0
    /\ crx_file_paths = 0
    /\ temp_handles = {}
    /\ extension_window_handles = {}
    /\ bhist = NoBrowserHistory

Init ==
    /\ BrowserOff
    /\ CallsOff
    /\ NodeOff
    /\ pc = "start"
    /\ try_autologin \in BOOLEAN
    /\ email_set \in BOOLEAN
    /\ password_set \in BOOLEAN
    /\ max_retry_multiplier \in 0..MaxMultiplier
    /\ flag \in BOOLEAN
    /\ flagAtEntry = flag
    /\ should_try_autologin = FALSE
    /\ procs = <<>>
    /\ grass_proc = 0
    /\ current_grass_proc = 0
    /\ attempt = 0
    /\ keyStep = 0
    /\ windows = <<>>
    /\ focused = 0
    /\ cfgResult = "none"
    /\ loggedIn = FALSE
    /\ exitCode = -1
    /\ exitVia = "none"
    /\ hist = NoHistory
    /\ att = NoAttempt

\* (mutation: main goes on although no process was returned)
MainStart_NoExit ==
    /\ pc = "start"
    /\ should_try_autologin' = (try_autologin /\ email_set /\ password_set)
    /\ \E outs \in LaunchInputs(launch_configure_max_attempts) :
          LET L == launch_grass_with_retries(launch_configure_max_attempts, outs)
          IN  /\ procs' = Returned(L)
              /\ grass_proc' = Len(Returned(L))
    /\ pc' = IF should_try_autologin' THEN "configure" ELSE "wait"
    /\ UNCHANGED <<try_autologin, email_set, password_set,
                   max_retry_multiplier, flag, flagAtEntry,
                   current_grass_proc, attempt, keyStep, windows, focused,
                   cfgResult, loggedIn, exitCode, exitVia, hist, att>>
    /\ UNCHANGED <<bvars, cvars, nvars>>

\* (mutation: the credentials are not looked at when autologin is decided)
MainStart_IgnoreCredentials ==
    /\ pc = "start"
    /\ should_try_autologin' = try_autologin
    /\ \E outs \in LaunchInputs(launch_configure_max_attempts) :
          LET L == launch_grass_with_retries(launch_configure_max_attempts, outs)
          IN  /\ procs' = Returned(L)
              /\ grass_proc' = Len(Returned(L))
              /\ IF L.result = 0
                 THEN /\ pc' = "exited"
                      /\ exitCode' = EXIT_FAILURE
                      /\ exitVia' = "launch_failed"
                 ELSE /\ pc' = IF should_try_autologin' THEN "configure"
                                                        ELSE "wait"
                      /\ UNCHANGED <<exitCode, exitVia>>
    /\ UNCHANGED <<try_autologin, email_set, password_set,
                   max_retry_multiplier, flag, flagAtEntry,
                   current_grass_proc, attempt, keyStep, windows, focused,
                   cfgResult, loggedIn, hist, att>>
    /\ UNCHANGED <<bvars, cvars, nvars>>

\* main up to the launch: autologin decision, then launch_grass_with_retries;
\* sys.exit(1) when no process is returned.
MainStart ==
    /\ pc = "start"
    /\ should_try_autologin' = (try_autologin /\ email_set /\ password_set)
    /\ \E outs \in LaunchInputs(launch_configure_max_attempts) :
          LET L == launch_grass_with_retries(launch_configure_max_attempts, outs)
          IN  /\ procs' = Returned(L)
              /\ grass_proc' = Len(Returned(L))
              /\ IF L.result = 0
                 THEN /\ pc' = "exited"
                      /\ exitCode' = EXIT_FAILURE
                      /\ exitVia' = "launch_failed"
                 ELSE /\ pc' = IF should_try_autologin' THEN "configure"
                                                        ELSE "wait"
                      /\ UNCHANGED <<exitCode, exitVia>>
    /\ UNCHANGED <<try_autologin, email_set, password_set,
                   max_retry_multiplier, flag, flagAtEntry,
                   current_grass_proc, attempt, keyStep, windows, focused,
                   cfgResult, loggedIn, hist, att>>
    /\ UNCHANGED <<bvars, cvars, nvars>>

\* (mutation: the flag is not looked at)
AlreadyConfigured_Never == FALSE

\* os.path.exists(configured_flag_path)
AlreadyConfigured == flag

\* configure_grass, entry: the flag short-circuit and the credentials guard.
CfgEntry ==
    /\ pc = "configure"
    /\ flagAtEntry' = flag
    /\ current_grass_proc' = grass_proc
    /\ IF AlreadyConfigured
       THEN pc' = "after_cfg" /\ cfgResult' = "True"
       ELSE IF ~email_set \/ ~password_set
       THEN pc' = "after_cfg" /\ cfgResult' = "False"
       ELSE IF 0 < launch_configure_max_attempts
       THEN pc' = "probe1" /\ cfgResult' = cfgResult
       ELSE pc' = "after_cfg" /\ cfgResult' = "False"
    /\ attempt' = 0
    /\ att' = NoAttempt
    /\ UNCHANGED <<try_autologin, email_set, password_set,
                   should_try_autologin, max_retry_multiplier, flag, procs,
                   grass_proc, keyStep, windows, focused, loggedIn, exitCode,
                   exitVia, hist>>
    /\ UNCHANGED <<bvars, cvars, nvars>>

\* (mutation: after a failed step the same attempt goes on from the probe)
NextAttempt_SameAttempt ==
    /\ attempt' = attempt
    /\ att' = att
    /\ pc' = "probe1" /\ cfgResult' = cfgResult

\* `continue`: the next attempt, or the end of the loop and return False.
NextAttempt ==
    /\ attempt' = attempt + 1
    /\ att' = NoAttempt
    /\ IF attempt + 1 < launch_configure_max_attempts
       THEN pc' = "probe1" /\ cfgResult' = cfgResult
       ELSE pc' = "after_cfg" /\ cfgResult' = "False"

\* `return False` out of the loop
ReturnFalse ==
    /\ pc' = "after_cfg"
    /\ cfgResult' = "False"
    /\ UNCHANGED <<attempt, att>>

\* The relaunch-if-dead block that precedes `continue` after a failed probe
\* or focus: poll the process, relaunch it when it has ended, give up when
\* the relaunch returns nothing.  h: the history so far.
RelaunchIfDead(h) ==
    \E q \in PollOutcomes(procs[current_grass_proc]) :
        LET polled == [procs EXCEPT ![current_grass_proc] = q]
        IN  IF q.alive
            THEN /\ procs' = polled
                 /\ hist' = h
                 /\ UNCHANGED current_grass_proc
                 /\ NextAttempt
            ELSE \E outs \in LaunchInputs(launch_configure_max_attempts) :
                   LET L == launch_grass_with_retries(
                                launch_configure_max_attempts, outs)
                   IN  /\ procs' = polled \o Returned(L)
                       /\ IF L.result # 0
                          THEN /\ current_grass_proc' = Len(procs) + 1
                               /\ hist' = [h EXCEPT !.relaunched = TRUE]
                               /\ NextAttempt
                          ELSE /\ hist' = [h EXCEPT !.relaunched = TRUE,
                                                     !.relaunchFail = TRUE]
                               /\ UNCHANGED current_grass_proc
                               /\ ReturnFalse

\* Attempt, first probe: search_windows_by_name with the full retry budget.
Probe1 ==
    /\ pc = "probe1"
    /\ \E outs \in SearchInputs(launch_configure_max_attempts) :
          LET S == search_windows_by_name(launch_configure_max_attempts, outs)
              h == [hist EXCEPT !.searched = TRUE,
                                !.probeMiss = @ \/ ~S.found,
                                !.probeHit = @ \/ S.found,
                                !.noxdo = @ \/ S.noxdo,
                                !.failures = IF S.found THEN @ ELSE @ + 1]
          IN  /\ windows' = S.windows
              /\ IF S.found
                 THEN /\ pc' = "probe2"
                      /\ att' = [att EXCEPT !.probe1 = TRUE,
                                            !.first = S.windows]
                      /\ hist' = h
                      /\ UNCHANGED <<procs, current_grass_proc, attempt,
                                     cfgResult>>
                 ELSE RelaunchIfDead(h)
    /\ UNCHANGED <<try_autologin, email_set, password_set,
                   should_try_autologin, max_retry_multiplier, flag,
                   flagAtEntry, grass_proc, keyStep, focused, loggedIn,
                   exitCode, exitVia>>
    /\ UNCHANGED <<bvars, cvars, nvars>>

\* Attempt, re-probe after the interface-load wait: one quick search.
Probe2 ==
    /\ pc = "probe2"
    /\ \E outs \in SearchInputs(1) :
          LET S == search_windows_by_name(1, outs)
              h == [hist EXCEPT !.searched = TRUE,
                                !.probeMiss = @ \/ ~S.found,
                                !.probeHit = @ \/ S.found,
                                !.noxdo = @ \/ S.noxdo,
                                !.failures = IF S.found THEN @ ELSE @ + 1]
          IN  /\ windows' = S.windows
              /\ IF S.found
                 THEN /\ pc' = "focus"
                      /\ att' = [att EXCEPT !.probe2 = TRUE,
                                            !.reprobe = S.windows]
                      /\ hist' = h
                      /\ UNCHANGED <<procs, current_grass_proc, attempt,
                                     cfgResult>>
                 ELSE RelaunchIfDead(h)
    /\ UNCHANGED <<try_autologin, email_set, password_set,
                   should_try_autologin, max_retry_multiplier, flag,
                   flagAtEntry, grass_proc, keyStep, focused, loggedIn,
                   exitCode, exitVia>>
    /\ UNCHANGED <<bvars, cvars, nvars>>

\* what xdotool windowfocus meets: exit 0, a non-zero exit, xdotool missing
FocusOutcomes == {"ok", "fail", "noxdo"}

\* (mutation: the last window of the attempt's first probe is focused)
last_window_id_Stale == att.first[Len(att.first)]

\* the window configure_grass focuses: windows[-1]
last_window_id == windows[Len(windows)]

\* Attempt, focus.  A missing xdotool raises FileNotFoundError out of
\* _run_subprocess, which nothing catches: the script ends with a traceback.
Focus ==
    /\ pc = "focus"
    /\ focused' = last_window_id
    /\ \E o \in FocusOutcomes :
          LET h == [hist EXCEPT !.focusCalled = TRUE,
                                !.focusFail = @ \/ (o # "ok"),
                                !.noxdo = @ \/ (o = "noxdo"),
                                !.failures = IF o = "ok" THEN @ ELSE @ + 1]
          IN  IF o = "ok"
              THEN /\ pc' = "keys"
                   /\ keyStep' = 1
                   /\ att' = [att EXCEPT !.focus = TRUE]
                   /\ hist' = h
                   /\ UNCHANGED <<procs, current_grass_proc, attempt,
                                  cfgResult, exitCode, exitVia>>
              ELSE IF o = "fail"
              THEN /\ RelaunchIfDead(h)
                   /\ UNCHANGED <<keyStep, exitCode, exitVia>>
              ELSE /\ pc' = "exited"
                   /\ cfgResult' = "raised"
                   /\ exitCode' = EXIT_FAILURE
                   /\ exitVia' = "uncaught_error"
                   /\ hist' = h
                   /\ UNCHANGED <<procs, current_grass_proc, attempt, att,
                                  keyStep>>
    /\ UNCHANGED <<try_autologin, email_set, password_set,
                   should_try_autologin, max_retry_multiplier, flag,
                   flagAtEntry, grass_proc, windows, loggedIn>>
    /\ UNCHANGED <<bvars, cvars, nvars>>

\* (mutation: the result of an injection is ignored)
StepPassed_Always(ok) == TRUE

\* `if not send_xdotool_key(...): continue`
StepPassed(ok) == ok

\* what one xdotool key/type call meets: exit 0, a non-zero exit, xdotool
\* missing
InjectOutcomes == {"ok", "fail", "noxdo"}

\* send_xdotool_key: True for exit 0, False for a non-zero exit and for a
\* missing xdotool alike
send_xdotool_key(o) == o = "ok"

\* Attempt, one injection of the fixed sequence.  A failed injection goes
\* straight to the next attempt, without a look at the process (which may
\* be why the injection failed: it may have ended).
InjectKey ==
    /\ pc = "keys"
    /\ \E o \in InjectOutcomes, li \in BOOLEAN :
       LET ok == send_xdotool_key(o)
       IN
          /\ hist' = [hist EXCEPT
                         !.injected = TRUE,
                         !.injectFail = @ \/ ~ok,
                         !.noxdo = @ \/ (o = "noxdo"),
                         !.submitted = @ \/ (ok /\ IsSubmit(keyStep)),
                         !.retyped = @ \/ (hist.submitted /\
                                            KeyPlan[keyStep] \in {"ID", "PW"}),
                         !.failures = IF ok THEN @ ELSE @ + 1]
          /\ IF ok
             THEN UNCHANGED procs
             ELSE \E q \in ExitOutcomes(procs[current_grass_proc]) :
                     procs' = [procs EXCEPT ![current_grass_proc] = q]
          /\ loggedIn' = IF ok /\ IsSubmit(keyStep) THEN li ELSE loggedIn
          /\ IF StepPassed(ok)
             THEN /\ att' = [att EXCEPT !.keysOK = IF ok THEN @ + 1 ELSE @,
                                        !.keyFail = @ \/ ~ok]
                  /\ IF keyStep < Len(KeyPlan)
                     THEN pc' = "keys" /\ keyStep' = keyStep + 1
                     ELSE pc' = "write" /\ keyStep' = keyStep
                  /\ UNCHANGED <<attempt, cfgResult>>
             ELSE /\ NextAttempt
                  /\ UNCHANGED keyStep
    /\ UNCHANGED <<try_autologin, email_set, password_set,
                   should_try_autologin, max_retry_multiplier, flag,
                   flagAtEntry, grass_proc, current_grass_proc,
                   windows, focused, exitCode, exitVia>>
    /\ UNCHANGED <<bvars, cvars, nvars>>

\* what writing the flag file meets: written, open() raises IOError (no
\* file), or write() raises IOError after open() created the file
WriteOutcomes == {"ok", "open_fails", "write_fails"}

\* (mutation: failure reported although the flag was written)
WriteReturns_False(o) == "False"

\* the value configure_grass returns after its attempt to write the flag
WriteReturns(o) == IF o = "ok" THEN "True" ELSE "False"

\* Attempt, last step: create the flag file and return.
WriteFlag ==
    /\ pc = "write"
    /\ \E o \in WriteOutcomes :
          /\ flag' = (flag \/ o # "open_fails")
          /\ hist' = [hist EXCEPT
                         !.writes = IF o # "open_fails" THEN @ + 1 ELSE @,
                         !.creations = IF ~flag /\ o # "open_fails"
                                       THEN @ + 1 ELSE @,
                         !.writeFail = @ \/ (o # "ok")]
          /\ cfgResult' = WriteReturns(o)
    /\ pc' = "after_cfg"
    /\ UNCHANGED <<try_autologin, email_set, password_set,
                   should_try_autologin, max_retry_multiplier, flagAtEntry,
                   procs, grass_proc, current_grass_proc, attempt, keyStep,
                   windows, focused, loggedIn, exitCode, exitVia, att>>
    /\ UNCHANGED <<bvars, cvars, nvars>>

\* (mutation: a failed configuration is fatal, sys.exit(1))
AfterConfigure_ExitOnFailure ==
    /\ pc = "after_cfg"
    /\ should_try_autologin' = (cfgResult = "True")
    /\ IF cfgResult = "True"
       THEN pc' = "wait" /\ UNCHANGED <<exitCode, exitVia>>
       ELSE pc' = "exited" /\ exitCode' = EXIT_FAILURE
            /\ exitVia' = "configure_failed"
    /\ UNCHANGED <<try_autologin, email_set, password_set,
                   max_retry_multiplier, flag, flagAtEntry, procs, grass_proc,
                   current_grass_proc, attempt, keyStep, windows, focused,
                   cfgResult, loggedIn, hist, att>>
    /\ UNCHANGED <<bvars, cvars, nvars>>

\* main after configure_grass returned: success keeps autologin mode, a
\* failure switches to manual mode; both go on to wait on the process.
AfterConfigure ==
    /\ pc = "after_cfg"
    /\ should_try_autologin' = (cfgResult = "True")
    /\ pc' = "wait"
    /\ UNCHANGED <<try_autologin, email_set, password_set,
                   max_retry_multiplier, flag, flagAtEntry, procs, grass_proc,
                   current_grass_proc, attempt, keyStep, windows, focused,
                   cfgResult, loggedIn, exitCode, exitVia, hist, att>>
    /\ UNCHANGED <<bvars, cvars, nvars>>

\* sys.exit(grass_proc.returncode if grass_proc.returncode is not None else 0)
MainExitCode(r) ==
    IF r.returncode # <<>> THEN ExitStatus(r.returncode[1]) ELSE 0

\* grass_proc.wait() returns: the process main holds has ended on its own.
WaitReturns ==
    /\ pc = "wait"
    /\ \E q \in PollOutcomes(procs[grass_proc]) :
          /\ ~q.alive
          /\ procs' = [procs EXCEPT ![grass_proc] = q]
          /\ exitCode' = MainExitCode(q)
    /\ pc' = "exited"
    /\ exitVia' = "wait_returned"
    /\ UNCHANGED <<try_autologin, email_set, password_set,
                   should_try_autologin, max_retry_multiplier, flag,
                   flagAtEntry, grass_proc, current_grass_proc, attempt,
                   keyStep, windows, focused, cfgResult, loggedIn, hist, att>>
    /\ UNCHANGED <<bvars, cvars, nvars>>

\* KeyboardInterrupt while main waits: kill_process, then sys.exit.
WaitInterrupt ==
    /\ pc = "wait"
    /\ \E q \in kill_process(procs[grass_proc]) :
          /\ procs' = [procs EXCEPT ![grass_proc] = q]
          /\ exitCode' = MainExitCode(q)
    /\ pc' = "exited"
    /\ exitVia' = "interrupt"
    /\ hist' = [hist EXCEPT !.kills = @ + 1, !.interrupted = TRUE]
    /\ UNCHANGED <<try_autologin, email_set, password_set,
                   should_try_autologin, max_retry_multiplier, flag,
                   flagAtEntry, grass_proc, current_grass_proc, attempt,
                   keyStep, windows, focused, cfgResult, loggedIn, att>>
    /\ UNCHANGED <<bvars, cvars, nvars>>

\* the positions of main between the launch and the wait
ConfiguringPcs == {"configure", "probe1", "probe2", "focus", "keys", "write",
                   "after_cfg"}

\* KeyboardInterrupt anywhere outside the try block around grass_proc.wait():
\* nothing catches it, the interpreter ends the script.
Interrupt ==
    /\ pc \in ConfiguringPcs
    /\ pc' = "exited"
    /\ exitCode' = EXIT_SIGINT
    /\ exitVia' = "uncaught_interrupt"
    /\ hist' = [hist EXCEPT !.interrupted = TRUE]
    /\ UNCHANGED <<try_autologin, email_set, password_set,
                   should_try_autologin, max_retry_multiplier, flag,
                   flagAtEntry, procs, grass_proc, current_grass_proc,
                   attempt, keyStep, windows, focused, cfgResult, loggedIn,
                   att>>
    /\ UNCHANGED <<bvars, cvars, nvars>>

Next ==
    \/ MainStart
    \/ CfgEntry
    \/ Probe1
    \/ Probe2
    \/ Focus
    \/ InjectKey
    \/ WriteFlag
    \/ AfterConfigure
    \/ WaitReturns
    \/ WaitInterrupt
    \/ Interrupt

Spec == Init /\ [][Next]_vars

\* The steps the script takes by itself: every sleep and every subprocess
\* call of main and configure_grass returns.  The end of the Grass process
\* and the user's Ctrl+C are the environment's and carry no fairness.
ProgramStep ==
    \/ MainStart
    \/ CfgEntry
    \/ Probe1
    \/ Probe2
    \/ Focus
    \/ InjectKey
    \/ WriteFlag
    \/ AfterConfigure

FairSpec == Init /\ [][Next]_vars /\ WF_vars(ProgramStep)

\* the orchestrator mode a position of main stands for
Mode ==
    CASE pc = "start" -> "Launching"
      [] pc \in ConfiguringPcs -> "Configuring"
      [] pc = "wait" /\ should_try_autologin -> "Monitoring"
      [] pc = "wait" /\ ~should_try_autologin -> "Manual"
      [] OTHER -> "Terminated"

(***************************************************************************)
(* Properties of grass-desktop_main.py                                     *)
(***************************************************************************)

ConfigureEntered == cfgResult # "none" \/ pc \in ConfiguringPcs \ {"configure"}

NoSignalSent == \A i \in 1..Len(procs) : ~procs[i].term /\ ~procs[i].kill

NoSelfExit == \A i \in 1..Len(procs) : ~procs[i].self

\* C1: when the flag file exists at the entry of configure_grass, the call
\* returns True without a window search, a focus call, an injection or a
\* process launch, and without writing the flag.
C1_FlagShortCircuit ==
    (flagAtEntry /\ ConfigureEntered) =>
        /\ cfgResult = "True"
        /\ pc \in {"after_cfg", "wait", "exited"}
        /\ ~hist.searched /\ ~hist.focusCalled /\ ~hist.injected
        /\ ~hist.relaunched /\ Len(procs) = 1
        /\ hist.writes = 0 /\ flag

C1_Witness == pc = "after_cfg" /\ flagAtEntry /\ cfgResult = "True"

\* C2: the flag is created only in an attempt in which both probes found a
\* window, the focus call succeeded and every injection reported success;
\* and configure_grass returns True exactly when the flag existed at entry
\* or was written successfully in this call.
C2_FlagOnlyAfterFullAttempt ==
    /\ hist.writes > 0 =>
          /\ att.probe1 /\ att.probe2 /\ att.focus
          /\ att.keysOK = Len(KeyPlan) /\ ~att.keyFail
    /\ (flag /\ ~flagAtEntry) => hist.writes > 0
    /\ cfgResult \in {"True", "False"} =>
          (cfgResult = "True" <=>
              (flagAtEntry \/ (hist.writes > 0 /\ ~hist.writeFail)))

C2_Witness == cfgResult = "True" /\ ~flagAtEntry /\ hist.writes = 1
              /\ hist.injectFail

\* C3 (as claimed): the flag is written by configure_grass only when the
\* submitted credentials logged the user in.
C3_ConfiguredOnlyAfterLogin == hist.writes > 0 => loggedIn

\* the scenario of C4 as the claim words it: configure_grass ran with the
\* flag absent, every probe found the window, every injection succeeded
C4_ClaimedScenario ==
    ConfigureEntered /\ ~flagAtEntry /\ ~hist.probeMiss /\ ~hist.injectFail

\* C4 (as claimed): in that scenario main waits in Monitoring with the flag
\* created exactly once.
C4_ScenarioA_AsClaimed ==
    (pc = "wait" /\ C4_ClaimedScenario) =>
        (Mode = "Monitoring" /\ flag /\ hist.creations = 1)

\* the scenario of C4 with the two steps the claim leaves out: the focus
\* call succeeded and the flag file could be written
C4_Scenario ==
    C4_ClaimedScenario /\ ~hist.focusFail /\ ~hist.writeFail

C4_Safety ==
    /\ hist.creations <= 1
    /\ (C4_Scenario /\ cfgResult # "none") =>
          (cfgResult = "True" /\ flag /\ hist.creations = 1)
    /\ (C4_Scenario /\ pc = "wait") => Mode = "Monitoring"

\* C4 (amended): with autologin enabled, credentials provided, the flag
\* absent, the window found at every probe, the focus call and every
\* injection succeeding and the flag file writable, the run, unless it is
\* interrupted, leaves Configuring for Monitoring, and the flag goes from
\* absent to present exactly once.
C4_ScenarioA ==
    /\ []C4_Safety
    /\ [](pc = "configure" /\ ~flag =>
             <>(\/ (Mode = "Monitoring" /\ flag /\ hist.creations = 1)
                \/ hist.probeMiss \/ hist.focusFail \/ hist.injectFail
                \/ hist.writeFail \/ hist.interrupted))

C4_Witness ==
    pc = "wait" /\ C4_Scenario /\ Mode = "Monitoring" /\ hist.creations = 1

C8_InterruptKillsProcess ==
    (pc = "exited" /\ hist.interrupted /\ grass_proc # 0) => hist.kills > 0

\* C10 (as claimed): an interrupt while main waits on the process ends the
\* process and the script with exit code 0.
C10_InterruptExitsZero ==
    (pc = "exited" /\ exitVia = "interrupt") =>
        (~procs[grass_proc].alive /\ exitCode = 0)

\* C11: when launch_grass_with_retries returns no process, main exits with
\* code 1 at once: configure_grass is not entered, no window is searched or
\* focused and no key is injected in that run.
C11_LaunchFailureIsFatal ==
    /\ (pc # "start" /\ grass_proc = 0) =>
          (pc = "exited" /\ exitVia = "launch_failed")
    /\ exitVia = "launch_failed" =>
          /\ pc = "exited" /\ exitCode = EXIT_FAILURE
          /\ grass_proc = 0 /\ procs = <<>>
          /\ ~ConfigureEntered /\ cfgResult = "none"
          /\ ~hist.searched /\ ~hist.focusCalled /\ ~hist.injected

C11_Witness ==
    /\ pc = "exited" /\ exitVia = "launch_failed" /\ exitCode = EXIT_FAILURE
    /\ should_try_autologin /\ ~flag /\ launch_configure_max_attempts > 1

\* C18: every windowfocus call of configure_grass is given the last
\* element of the list the re-probe of the same attempt returned, not an
\* element of the list of the attempt's first probe.
C18_FocusesLastOfReprobe ==
    [][(pc = "focus" /\ ~hist'.interrupted) =>
          /\ att.probe2 /\ att.reprobe # <<>>
          /\ hist'.focusCalled
          /\ focused' = att.reprobe[Len(att.reprobe)]]_vars

C18_Witness ==
    /\ pc = "keys" /\ att.focus
    /\ att.first = <<1>> /\ att.reprobe = <<1, 2>> /\ focused = 2

\* C19: a failed step (probe, re-probe, focus, injection) ends its attempt:
\* inside the loop the number of failed steps equals the number of attempts
\* left behind, a step is made only after the steps before it succeeded
\* in the same attempt, an attempt begins at the window probe with nothing
\* done, and there are never more than max_attempts attempts.
C19_FailureEndsAttempt ==
    /\ attempt <= launch_configure_max_attempts
    /\ hist.failures <= launch_configure_max_attempts
    /\ pc \in {"probe1", "probe2", "focus", "keys", "write"} =>
          /\ attempt < launch_configure_max_attempts
          /\ hist.failures = attempt
          /\ ~att.keyFail
    /\ pc = "probe1" => att = NoAttempt
    /\ pc = "probe2" => (att.probe1 /\ ~att.probe2)
    /\ pc = "focus" => (att.probe2 /\ ~att.focus)
    /\ pc = "keys" => (att.focus /\ att.keysOK = keyStep - 1)
    /\ att.probe2 => att.probe1
    /\ att.focus => att.probe2
    /\ att.keysOK > 0 => att.focus

C19_Witness ==
    /\ pc = "probe1" /\ attempt = 1 /\ hist.failures = 1
    /\ hist.injectFail /\ att = NoAttempt

\* C20 (as claimed): an attempt that follows a failed step begins with a
\* Grass process that was running when the step failed or was relaunched
\* since.
C20_RelaunchBeforeRetry ==
    (pc = "probe1" /\ attempt > 0) => procs[current_grass_proc].alive

\* C21 (as claimed): once the submit key was injected with success, the
\* identifier and the password are not typed again in that call.
C21_LoginNotRerun == ~hist.retyped

\* C22 (as claimed): once a probe, a focus call or an injection found
\* xdotool missing, configure_grass makes no further attempt: it has
\* returned False or raised.
C22_MissingXdotoolNotRetried ==
    hist.noxdo => (pc \in {"after_cfg", "wait", "exited"}
                   /\ cfgResult \in {"False", "raised"})

(***************************************************************************)
(* grass_main.py: main                                                     *)
(***************************************************************************)

\* largest number of extensions in EXTENSION_IDS explored
MaxExtensions == 2

\* the variables of grass-desktop_main.py that grass_main.py never touches
DesktopOff ==
    /\ pc = "off"
    /\ should_try_autologin = FALSE
    /\ flag = FALSE
    /\ flagAtEntry = FALSE
    /\ procs = <<>>
    /\ grass_proc = 0
    /\ current_grass_proc = 0
    /\ attempt = 0
    /\ keyStep = 0
    /\ windows = <<>>
    /\ focused = 0
    /\ cfgResult = "none"
    /\ loggedIn = FALSE
    /\ exitCode = -1
    /\ exitVia = "none"
    /\ hist = NoHistory
    /\ att = NoAttempt

dstate == <<pc, should_try_autologin, flag, flagAtEntry, procs, grass_proc,
            current_grass_proc, attempt, keyStep, windows, focused, cfgResult,
            loggedIn, exitCode, exitVia, hist, att>>

\* what the environment fixes for the whole run
benv == <<try_autologin, email_set, password_set, max_retry_multiplier,
          require_auth, extension_urls_set, crx_kinds>>

\* EXTENSION_IDS and CRX_DOWNLOAD_URLS are set and of equal length, and
\* EXTENSION_URLS is unset or of that length (main returns at once otherwise).
BInit ==
    /\ DesktopOff
    /\ CallsOff
    /\ NodeOff
    /\ try_autologin \in BOOLEAN
    /\ email_set \in BOOLEAN
    /\ password_set \in BOOLEAN
    /\ max_retry_multiplier \in 0..MaxMultiplier
    /\ require_auth \in BOOLEAN
    /\ extension_urls_set \in BOOLEAN
    /\ crx_kinds \in UNION {[1..n -> {"cws", "provider"}] :
                             n \in 1..MaxExtensions}
    /\ bpc = "b_start"
    /\ sessions = <<>>
    /\ driver = 0
    /\ temp_driver_for_download = 0
    /\ attempt_main = 0
    /\ autologin_successful = FALSE
    /\ manual_mode_activated = FALSE
    /\ ext_i = 0
    /\ crx_file_paths = 0
    /\ temp_handles = {}
    /\ extension_window_handles = {}
    /\ bhist = NoBrowserHistory

NumExtensions == Len(crx_kinds)

\* safe_quit: quits the session when there is one and it is still active
\* (mutation: the session is left as it is)
safe_quit_LeavesOpen(s, d) == s

safe_quit(s, d) == IF d # 0 /\ s[d] THEN [s EXCEPT ![d] = FALSE] ELSE s

\* main up to the autologin decision
BStart ==
    /\ bpc = "b_start"
    /\ bpc' = IF try_autologin /\ email_set /\ password_set
                 /\ 0 < max_retry_multiplier
              THEN "auto_init" ELSE "manual_entry"
    /\ UNCHANGED <<sessions, driver, temp_driver_for_download, attempt_main,
                   autologin_successful, manual_mode_activated, ext_i,
                   crx_file_paths, temp_handles, extension_window_handles,
                   bhist>>
    /\ UNCHANGED <<benv, dstate, cvars, nvars>>

\* The except blocks of the autologin loop: quit the session main holds,
\* then the next attempt, or manual mode after the last one.
\* s, d: sessions and driver when the exception arrives.
\* h: the history when the exception arrives.
\* (mutation: one more attempt than max_retries_main)
AutologinFailed_ExtraAttempt(s, d, h) ==
    /\ sessions' = safe_quit(s, d)
    /\ driver' = 0
    /\ bhist' = [h EXCEPT !.failed = @ + 1]
    /\ IF attempt_main < max_retry_multiplier
       THEN bpc' = "auto_init" /\ attempt_main' = attempt_main + 1
       ELSE bpc' = "manual_entry" /\ attempt_main' = attempt_main

AutologinFailed(s, d, h) ==
    /\ sessions' = safe_quit(s, d)
    /\ driver' = 0
    /\ bhist' = [h EXCEPT !.failed = @ + 1]
    /\ IF attempt_main < max_retry_multiplier - 1
       THEN bpc' = "auto_init" /\ attempt_main' = attempt_main + 1
       ELSE bpc' = "manual_entry" /\ attempt_main' = attempt_main

\* Autologin attempt: initialize_driver(), then the EXTENSION_URLS guard.
AutoInit ==
    /\ bpc = "auto_init"
    /\ \E ok \in BOOLEAN :
          LET h == [bhist EXCEPT !.attempts = @ + 1, !.done = {},
                                 !.observed = {}]
          IN  IF ~ok
              THEN AutologinFailed(sessions, driver, h)
              ELSE IF ~extension_urls_set
              THEN AutologinFailed(Append(sessions, TRUE), Len(sessions) + 1,
                                   h)
              ELSE /\ sessions' = Append(sessions, TRUE)
                   /\ driver' = Len(sessions) + 1
                   /\ bpc' = "auto_login1"
                   /\ bhist' = [h EXCEPT !.done = {"init"}]
                   /\ UNCHANGED attempt_main
    /\ UNCHANGED <<temp_driver_for_download, autologin_successful,
                   manual_mode_activated, ext_i, crx_file_paths, temp_handles,
                   extension_window_handles>>
    /\ UNCHANGED <<benv, dstate, cvars, nvars>>

\* Autologin attempt: the first login_to_website.
AutoLogin1 ==
    /\ bpc = "auto_login1"
    /\ \E ok \in BOOLEAN :
          IF ok
          THEN /\ bpc' = "auto_download"
               /\ ext_i' = 1
               /\ crx_file_paths' = 0
               /\ bhist' = [bhist EXCEPT !.done = @ \cup {"login1"}]
               /\ UNCHANGED <<sessions, driver, attempt_main>>
          ELSE /\ AutologinFailed(sessions, driver, bhist)
               /\ UNCHANGED <<ext_i, crx_file_paths>>
    /\ UNCHANGED <<temp_driver_for_download, autologin_successful,
                   manual_mode_activated, temp_handles,
                   extension_window_handles>>
    /\ UNCHANGED <<benv, dstate, cvars, nvars>>

\* download_and_extract_extension builds auth_data, and so
\* download_with_auth_check calls login_to_website, for a provider URL
\* when authentication is required
LogsInToDownload(i) == require_auth /\ crx_kinds[i] = "provider"

\* the authentication data download_and_extract_extension insists on
AuthDataComplete == extension_urls_set /\ email_set /\ password_set

\* Autologin attempt: download_and_extract_extension for one extension;
\* on a failure it quits the session itself before re-raising.
AutoDownload ==
    /\ bpc = "auto_download"
    /\ \E ok \in BOOLEAN :
          IF ok
          THEN /\ crx_file_paths' = crx_file_paths + 1
               /\ IF ext_i < NumExtensions
                  THEN /\ bpc' = "auto_download" /\ ext_i' = ext_i + 1
                       /\ UNCHANGED bhist
                  ELSE /\ bpc' = "auto_reinit" /\ ext_i' = ext_i
                       /\ bhist' = [bhist EXCEPT
                                       !.done = @ \cup {"download"}]
               /\ UNCHANGED <<sessions, driver, attempt_main>>
          ELSE /\ AutologinFailed(safe_quit(sessions, driver), driver, bhist)
               /\ UNCHANGED <<ext_i, crx_file_paths>>
    /\ UNCHANGED <<temp_driver_for_download, autologin_successful,
                   manual_mode_activated, temp_handles,
                   extension_window_handles>>
    /\ UNCHANGED <<benv, dstate, cvars, nvars>>

\* Autologin attempt: quit the download session, start the one that loads
\* the extensions.
AutoReinit ==
    /\ bpc = "auto_reinit"
    /\ \E ok \in BOOLEAN :
          IF ok
          THEN /\ sessions' = Append(safe_quit(sessions, driver), TRUE)
               /\ driver' = Len(sessions) + 1
               /\ bpc' = "auto_login2"
               /\ bhist' = [bhist EXCEPT !.done = @ \cup {"reinit"}]
               /\ UNCHANGED attempt_main
          ELSE AutologinFailed(safe_quit(sessions, driver), 0, bhist)
    /\ UNCHANGED <<temp_driver_for_download, autologin_successful,
                   manual_mode_activated, ext_i, crx_file_paths, temp_handles,
                   extension_window_handles>>
    /\ UNCHANGED <<benv, dstate, cvars, nvars>>

\* Autologin attempt: the second login_to_website.
AutoLogin2 ==
    /\ bpc = "auto_login2"
    /\ \E ok \in BOOLEAN :
          IF ok
          THEN /\ bpc' = "auto_connect"
               /\ ext_i' = 1
               /\ temp_handles' = {}
               /\ bhist' = [bhist EXCEPT !.done = @ \cup {"login2"}]
               /\ UNCHANGED <<sessions, driver, attempt_main>>
          ELSE /\ AutologinFailed(sessions, driver, bhist)
               /\ UNCHANGED <<ext_i, temp_handles>>
    /\ UNCHANGED <<temp_driver_for_download, autologin_successful,
                   manual_mode_activated, crx_file_paths,
                   extension_window_handles>>
    /\ UNCHANGED <<benv, dstate, cvars, nvars>>

\* What one attempt of login_to_website meets: the Logout button appears,
\* NoSuchElementException / TimeoutException, or another exception.
LoginOutcomes == {"ok", "element_error", "other_error"}

\* a call of login_to_website / check_and_connect before its loop.  open:
\* the tabs the call opened that are still open; openAtStart: that number
\* at the start of each attempt
CallStart == [kind |-> "None", error |-> "none", attempts |-> 0,
              marker |-> FALSE, open |-> 0, openAtStart |-> <<>>]

\* the login loop from attempt k on: open a tab, go through the login
\* page; on an exception close the tab and go on, or raise LoginFailedError
\* when it was the last attempt
RECURSIVE LoginFrom(_, _, _, _)
LoginFrom(k, max_retries, outs, acc) ==
    IF k >= max_retries
    THEN acc
    ELSE LET now == [acc EXCEPT !.attempts = @ + 1, !.open = @ + 1,
                                !.openAtStart = Append(@, acc.open)]
         IN  IF outs[k + 1] = "ok"
             THEN [now EXCEPT !.kind = "True", !.marker = TRUE]
             ELSE IF k < max_retries - 1
             THEN LoginFrom(k + 1, max_retries, outs,
                            [now EXCEPT !.open = @ - 1])
             ELSE [now EXCEPT !.kind = "raised",
                              !.error = "LoginFailedError"]

\* login_to_website: kind is "True" (returned True), "None" (the function
\* ran off its end) or "raised"; marker: the Logout button was seen
login_to_website(max_retries, outs) ==
    LoginFrom(0, max_retries, outs, CallStart)

LoginInputs(max_retries) == [1..max_retries -> LoginOutcomes]

\* What one attempt of check_and_connect meets: the 'Grass is Connected'
\* marker; a timeout with the CONNECT GRASS button there and clicked; a
\* timeout without the button (NoSuchElementException); a timeout and
\* another exception around the button; an exception other than
\* TimeoutException from the page load or the wait.
ConnectOutcomes == {"marker", "clicked", "nobutton", "click_error", "error"}

\* the connection loop from attempt k on.  After a click the loop goes to
\* its next iteration as it is; after the loop ExtensionConnectionError is
\* raised.
RECURSIVE ConnectFrom(_, _, _, _)
ConnectFrom(k, max_retries, outs, acc) ==
    IF k >= max_retries
    THEN [acc EXCEPT !.kind = "raised", !.error = "ExtensionConnectionError"]
    ELSE LET now == [acc EXCEPT !.attempts = @ + 1, !.open = @ + 1,
                                !.openAtStart = Append(@, acc.open)]
         IN  CASE outs[k + 1] = "marker" ->
                    [now EXCEPT !.kind = "returned", !.marker = TRUE]
               [] outs[k + 1] = "clicked" ->
                    ConnectFrom(k + 1, max_retries, outs, now)
               [] outs[k + 1] \in {"nobutton", "click_error"} ->
                    IF k < max_retries - 1
                    THEN ConnectFrom(k + 1, max_retries, outs,
                                     [now EXCEPT !.open = @ - 1])
                    ELSE [now EXCEPT !.kind = "raised",
                                     !.error = "ExtensionConnectionError"]
               [] OTHER ->
                    [now EXCEPT !.kind = "raised",
                                !.error = "WebDriverException"]

\* (mutation: the window handle is returned after the click, without the
\* marker having been seen)
check_and_connect_ReturnAfterClick(max_retries, outs) ==
    IF max_retries >= 1 /\ outs[1] = "clicked"
    THEN [CallStart EXCEPT !.kind = "returned", !.attempts = 1, !.open = 1,
                           !.openAtStart = <<0>>]
    ELSE ConnectFrom(0, max_retries, outs, CallStart)

\* check_and_connect: kind is "returned" (the window handle) or "raised"
check_and_connect(max_retries, outs) ==
    ConnectFrom(0, max_retries, outs, CallStart)

ConnectInputs(max_retries) == [1..max_retries -> ConnectOutcomes]

\* Autologin attempt: check_and_connect for one extension; after the last
\* one the handles are kept, autologin_successful is set and the loop left.
AutoConnect ==
    /\ bpc = "auto_connect"
    /\ \E outs \in ConnectInputs(max_retry_multiplier) :
       LET r == check_and_connect(max_retry_multiplier, outs)
           h == [bhist EXCEPT !.observed =
                    IF r.marker THEN @ \cup {<<ext_i, driver>>} ELSE @]
       IN
          IF r.kind = "returned"
          THEN /\ temp_handles' = temp_handles \cup {ext_i}
               /\ IF ext_i < NumExtensions
                  THEN /\ bpc' = "auto_connect"
                       /\ ext_i' = ext_i + 1
                       /\ bhist' = h
                       /\ UNCHANGED <<extension_window_handles,
                                      autologin_successful>>
                  ELSE /\ bpc' = "monitor"
                       /\ ext_i' = ext_i
                       /\ extension_window_handles' = temp_handles'
                       /\ autologin_successful' = TRUE
                       /\ bhist' = [h EXCEPT !.done = @ \cup {"connect"},
                                             !.monitored = TRUE]
               /\ UNCHANGED <<sessions, driver, attempt_main>>
          ELSE /\ AutologinFailed(sessions, driver, h)
               /\ UNCHANGED <<ext_i, temp_handles, extension_window_handles,
                              autologin_successful>>
    /\ UNCHANGED <<temp_driver_for_download, manual_mode_activated,
                   crx_file_paths>>
    /\ UNCHANGED <<benv, dstate, cvars, nvars>>

\* any(url is not a Chrome Web Store URL)
needs_temp_driver == \E i \in 1..NumExtensions : crx_kinds[i] = "provider"

\* Manual mode, entry: set the flag, quit a session still held, start the
\* temporary download session when a provider URL needs one.  A failed
\* start is caught by the inner except: no download is tried.
ManualEntry ==
    /\ bpc = "manual_entry"
    /\ manual_mode_activated' = TRUE
    /\ driver' = 0
    /\ crx_file_paths' = 0
    /\ ext_i' = 1
    /\ IF needs_temp_driver
       THEN \E ok \in BOOLEAN :
              IF ok
              THEN /\ sessions' = Append(safe_quit(sessions, driver), TRUE)
                   /\ temp_driver_for_download' = Len(sessions) + 1
                   /\ bpc' = "manual_download"
              ELSE /\ sessions' = safe_quit(sessions, driver)
                   /\ temp_driver_for_download' = 0
                   /\ bpc' = "manual_init"
       ELSE /\ sessions' = safe_quit(sessions, driver)
            /\ temp_driver_for_download' = 0
            /\ bpc' = "manual_download"
    /\ UNCHANGED <<attempt_main, autologin_successful, temp_handles,
                   extension_window_handles, bhist>>
    /\ UNCHANGED <<benv, dstate, cvars, nvars>>

\* Manual mode: download_and_extract_extension for one extension.  With
\* authentication required for a provider URL it raises ValueError when
\* the authentication data is incomplete and calls login_to_website
\* otherwise.  Any failure ends the downloads; the finally block quits the
\* temporary session.
ManualDownload ==
    /\ bpc = "manual_download"
    /\ \E ok \in BOOLEAN :
          LET incomplete == LogsInToDownload(ext_i) /\ ~AuthDataComplete
              logsIn == LogsInToDownload(ext_i) /\ AuthDataComplete
          IN  /\ bhist' = [bhist EXCEPT !.manualLogin = @ \/ logsIn]
              /\ IF ok /\ ~incomplete
                 THEN /\ crx_file_paths' = crx_file_paths + 1
                      /\ IF ext_i < NumExtensions
                         THEN /\ bpc' = "manual_download"
                              /\ ext_i' = ext_i + 1
                              /\ UNCHANGED sessions
                         ELSE /\ bpc' = "manual_init"
                              /\ ext_i' = ext_i
                              /\ sessions' = safe_quit(sessions,
                                                 temp_driver_for_download)
                 ELSE /\ bpc' = "manual_init"
                      /\ sessions' = safe_quit(sessions,
                                                temp_driver_for_download)
                      /\ UNCHANGED <<crx_file_paths, ext_i>>
    /\ UNCHANGED <<driver, temp_driver_for_download, attempt_main,
                   autologin_successful, manual_mode_activated, temp_handles,
                   extension_window_handles>>
    /\ UNCHANGED <<benv, dstate, cvars, nvars>>

\* Manual mode: start the session for manual use and open the extension
\* page (a page that fails to load is only logged).  A failed start is
\* caught by the outer except, and main returns.
ManualInit ==
    /\ bpc = "manual_init"
    /\ \E ok \in BOOLEAN :
          IF ok
          THEN /\ sessions' = Append(sessions, TRUE)
               /\ driver' = Len(sessions) + 1
               /\ bpc' = "manual_idle"
          ELSE /\ bpc' = "finished"
               /\ UNCHANGED <<sessions, driver>>
    /\ UNCHANGED <<temp_driver_for_download, attempt_main,
                   autologin_successful, manual_mode_activated, ext_i,
                   crx_file_paths, temp_handles, extension_window_handles,
                   bhist>>
    /\ UNCHANGED <<benv, dstate, cvars, nvars>>

\* Monitoring loop, one round: refresh_and_check for every extension.  A
\* lost connection raises Exception; main logs it, the finally block quits
\* the session and main returns.
MonitorCheck ==
    /\ bpc = "monitor"
    /\ \E connected \in BOOLEAN :
          IF connected
          THEN UNCHANGED <<bpc, sessions, bhist>>
          ELSE /\ bpc' = "finished"
               /\ sessions' = safe_quit(sessions, driver)
               /\ bhist' = [bhist EXCEPT !.lost = TRUE]
    /\ UNCHANGED <<driver, temp_driver_for_download, attempt_main,
                   autologin_successful, manual_mode_activated, ext_i,
                   crx_file_paths, temp_handles, extension_window_handles>>
    /\ UNCHANGED <<benv, dstate, cvars, nvars>>

\* KeyboardInterrupt in the monitoring loop: caught there, the finally
\* block quits the session.
MonitorInterrupt ==
    /\ bpc = "monitor"
    /\ bpc' = "finished"
    /\ sessions' = safe_quit(sessions, driver)
    /\ bhist' = [bhist EXCEPT !.interrupted = TRUE]
    /\ UNCHANGED <<driver, temp_driver_for_download, attempt_main,
                   autologin_successful, manual_mode_activated, ext_i,
                   crx_file_paths, temp_handles, extension_window_handles>>
    /\ UNCHANGED <<benv, dstate, cvars, nvars>>

AutologinPcs == {"auto_init", "auto_login1", "auto_download", "auto_reinit",
                 "auto_login2", "auto_connect"}

ManualPcs == {"manual_entry", "manual_download", "manual_init", "manual_idle"}

\* KeyboardInterrupt anywhere else: no except clause of main names it (it is
\* no Exception), it leaves main and is caught at the bottom of the script.
\* Only the finally block around the manual-mode downloads runs on the way.
BInterrupt ==
    /\ bpc \in AutologinPcs \cup ManualPcs
    /\ bpc' = "finished"
    /\ sessions' = IF bpc = "manual_download"
                   THEN safe_quit(sessions, temp_driver_for_download)
                   ELSE sessions
    /\ bhist' = [bhist EXCEPT !.interrupted = TRUE]
    /\ UNCHANGED <<driver, temp_driver_for_download, attempt_main,
                   autologin_successful, manual_mode_activated, ext_i,
                   crx_file_paths, temp_handles, extension_window_handles>>
    /\ UNCHANGED <<benv, dstate, cvars, nvars>>

BNext ==
    \/ BStart
    \/ AutoInit
    \/ AutoLogin1
    \/ AutoDownload
    \/ AutoReinit
    \/ AutoLogin2
    \/ AutoConnect
    \/ ManualEntry
    \/ ManualDownload
    \/ ManualInit
    \/ MonitorCheck
    \/ MonitorInterrupt
    \/ BInterrupt

SpecBrowser == BInit /\ [][BNext]_vars

(***************************************************************************)
(* Properties of grass_main.py                                             *)
(***************************************************************************)

DriverLive == driver # 0 /\ sessions[driver]

\* C6 (as claimed): once the monitoring loop has found the connected marker
\* absent, main is back in its login/connection steps with the browser
\* session it held still live.
C6_LossReentersConfiguring ==
    bhist.lost => (bpc \in AutologinPcs /\ DriverLive)

\* C7 (as claimed): in manual mode login_to_website and check_and_connect
\* are not invoked, and the browser opened for manual use is live while
\* the script idles.
C7_ManualIsTerminal ==
    /\ manual_mode_activated => ~bhist.manualLogin
    /\ bpc = "manual_idle" => DriverLive

\* C9 (as claimed): when the script finishes after an interrupt, no browser
\* session it started is still live.
C9_InterruptQuitsBrowser ==
    (bpc = "finished" /\ bhist.interrupted) =>
        \A i \in 1..Len(sessions) : ~sessions[i]

\* the steps of one autologin attempt
AllSteps == {"init", "login1", "download", "reinit", "login2", "connect"}

\* C27: with autologin enabled and credentials provided, at most
\* MAX_RETRY_MULTIPLIER autologin attempts are begun; the monitoring loop is
\* entered exactly when an attempt completed every step; manual mode is
\* entered (unless the run is interrupted first) once the last attempt has
\* failed, and only then; no run enters both.
C27_AutologinOutcome ==
    (try_autologin /\ email_set /\ password_set /\ bpc # "off") =>
        /\ bhist.attempts <= max_retry_multiplier
        /\ bhist.failed <= bhist.attempts
        /\ bhist.monitored <=> autologin_successful
        /\ bpc = "monitor" => bhist.monitored
        /\ autologin_successful => bhist.done = AllSteps
        /\ manual_mode_activated =>
              /\ ~autologin_successful
              /\ bhist.attempts = max_retry_multiplier
              /\ bhist.failed = bhist.attempts
        /\ bpc \in ManualPcs \ {"manual_entry"} => manual_mode_activated
        /\ (bhist.failed = max_retry_multiplier
            /\ bpc \notin {"b_start", "manual_entry"}) =>
              (manual_mode_activated \/ bhist.interrupted)
        /\ ~(bhist.monitored /\ manual_mode_activated)

C27_Witness ==
    /\ try_autologin /\ email_set /\ password_set
    /\ bpc = "monitor" /\ bhist.attempts = max_retry_multiplier
    /\ bhist.failed = bhist.attempts - 1 /\ bhist.failed > 0

\* C28: while main is in the monitoring loop, every configured extension
\* had its 'Grass is Connected' marker seen in the last autologin attempt
\* by the session main holds, main holds a window handle for each, and
\* that session has not been quit.
C28_MonitoringAfterSetup ==
    bpc = "monitor" =>
        /\ DriverLive
        /\ bhist.done = AllSteps
        /\ extension_window_handles = 1..NumExtensions
        /\ \A i \in 1..NumExtensions : <<i, driver>> \in bhist.observed

C28_Witness ==
    /\ bpc = "monitor" /\ NumExtensions > 1 /\ bhist.failed > 0
    /\ \A i \in 1..NumExtensions : <<i, driver>> \in bhist.observed

(***************************************************************************)
(* grass-desktop_main.py: the helper functions called by themselves        *)
(***************************************************************************)

\* calls of launch_grass_with_retries: max_attempts and what each start meets
LaunchCalls ==
    UNION {{[f |-> "launch", max_attempts |-> m, outs |-> o] :
               o \in LaunchInputs(m)} : m \in 0..MaxAttempts}

\* calls of search_windows_by_name: max_attempts and what each search meets
SearchCalls ==
    UNION {{[f |-> "search", max_attempts |-> m, outs |-> o] :
               o \in SearchInputs(m)} : m \in 0..MaxAttempts}

\* calls of kill_process: on a running process, on one that has ended
\* unnoticed, on one whose end the script has seen
KillCalls ==
    {[f |-> "kill", proc |-> r] :
        r \in ExitOutcomes(NewProc(TRUE, 0))
              \cup {NewProc(FALSE, c) : c \in SelfExitCodes}}

\* two consecutive failed searches (loop indices k and k + 1) of one call of
\* search_windows_by_name that both sleep a backoff, with the value
\* random.randint returns at each
BackoffCalls ==
    {c \in [f : {"backoff"}, max_attempts : 3..MaxAttempts,
            k : 0..MaxAttempts, retry_multiplier : 1..MaxMultiplier,
            jitters : [1..2 -> WINDOW_SEARCH_BACKOFF_MIN_FACTOR
                                 ..WINDOW_SEARCH_BACKOFF_MAX_FACTOR]] :
        c.k + 1 < c.max_attempts - 1}

\* the characters texts are made of: the sign character, an alphanumeric
\* one, another printable one, the space
TextChars == {"-", "a", "@", " "}

\* the non-empty texts an identifier or a secret can be
Texts == UNION {[1..n -> TextChars] : n \in 1..MaxTextLen}

\* re.sub(r"^-", r"\\-", password): a backslash before a leading '-'
escaped_password(password) ==
    IF password # <<>> /\ password[1] = "-"
    THEN <<"\\">> \o password
    ELSE password

\* the two credential texts configure_grass hands to send_xdotool_key: the
\* identifier as it is (line 335), the secret after the substitution
\* (lines 343-344)
credential_texts(email_username, password) ==
    [identifier |-> email_username, secret |-> escaped_password(password)]

\* the credentials configure_grass is called with (both non-empty)
CredentialCalls ==
    {[f |-> "credentials", email_username |-> e, password |-> p] :
        e \in Texts, p \in Texts}

\* the calls of login_to_website: a retry count (0 when MAX_RETRY_MULTIPLIER
\* is 0) and what each attempt meets
LoginCalls ==
    UNION {{[f |-> "login", max_retries |-> m, outs |-> o] :
                o \in LoginInputs(m)} : m \in 0..MaxAttempts}

\* the calls of check_and_connect
ConnectCalls ==
    UNION {{[f |-> "connect", max_retries |-> m, outs |-> o] :
                o \in ConnectInputs(m)} : m \in 0..MaxAttempts}

\* The manifest the provider serves, as the set of the key paths present
\* in it; the lookups of lines 147-149 in the order they are made.
ManifestLookups ==
    << <<"result">>, <<"result", "data">>, <<"result", "data", "version">>,
       <<"result", "data", "links">>,
       <<"result", "data", "links", "linux">> >>

AllPaths == {ManifestLookups[i] : i \in 1..Len(ManifestLookups)}

IsPrefix(p, q) ==
    Len(p) <= Len(q) /\ \A i \in 1..Len(p) : p[i] = q[i]

\* a JSON object holds a key path only together with the paths above it
Manifests ==
    {m \in SUBSET AllPaths :
        \A q \in m : \A p \in AllPaths : IsPrefix(p, q) => p \in m}

\* a complete manifest with the key at path p (and what is below it) removed
Without(p) == {q \in AllPaths : ~IsPrefix(p, q)}

\* (mutation: the version is read with a default value, data.get('version'))
FirstMissing_VersionDefault(manifest) ==
    LET miss == {i \in 1..Len(ManifestLookups) :
                    /\ ManifestLookups[i] \notin manifest
                    /\ ManifestLookups[i] # <<"result", "data", "version">>}
    IN  IF miss = {} THEN 0
        ELSE CHOOSE i \in miss : \A j \in miss : i <= j

\* the first subscription of lines 147-149 that raises KeyError (0: none)
FirstMissing(manifest) ==
    LET miss == {i \in 1..Len(ManifestLookups) :
                    ManifestLookups[i] \notin manifest}
    IN  IF miss = {} THEN 0
        ELSE CHOOSE i \in miss : \A j \in miss : i <= j

\* Files of the extension directory: the directory they are in (the names
\* from the extension directory down), their name and where they come from.
DirNames == {"x", "y"}

Dirs == UNION {[1..n -> DirNames] : n \in 0..MaxDepth}

NewFile(dir, stem, ext, from) ==
    [dir |-> dir, stem |-> stem, ext |-> ext, from |-> from]

\* the archives served: a manifest file and at most one .crx file
Archives ==
    {{NewFile(<<>>, "manifest", "json", "archive")}}
    \cup {{NewFile(<<>>, "manifest", "json", "archive"),
           NewFile(d, "grass", "crx", "archive")} : d \in Dirs}

\* what the extension directory holds before the call (os.makedirs with
\* exist_ok=True keeps it): nothing, or the .crx file of an earlier download
PriorContents ==
    {{}} \cup {{NewFile(d, n, "crx", "prior")} :
                  d \in Dirs, n \in {"grass", "old"}}

SamePath(f, g) == f.dir = g.dir /\ f.stem = g.stem /\ f.ext = g.ext

\* the directory after the zip file was written and extractall ran: the
\* files of the archive replace those at the same path
extractall(prior, archive) ==
    {f \in prior : ~\E g \in archive : SamePath(f, g)}
    \cup archive
    \cup {NewFile(<<>>, "extension_id", "zip", "download")}

\* os.walk is top-down: a directory is listed before the directories below
\* it, and the order among the entries of one directory is the file
\* system's.  The .crx files the loop of lines 180-185 can meet first:
FirstCrx(files) ==
    {f \in files :
        /\ f.ext = "crx"
        /\ ~\E g \in files :
               g.ext = "crx" /\ g.dir # f.dir /\ IsPrefix(g.dir, f.dir)}

DownloadStart ==
    [kind |-> "none", error |-> "none", key |-> "none", paths |-> {},
     requests |-> 0]

\* download_from_provider_website: the results the call can have.  kind is
\* "returned" (paths holds the file returned) or "raised"
download_from_provider_website(page, manifest, http, prior, archive) ==
    IF page # "json"
    THEN {[DownloadStart EXCEPT !.kind = "raised",
                                !.error = "JSONDecodeError"]}
    ELSE IF FirstMissing(manifest) # 0
    THEN LET path == ManifestLookups[FirstMissing(manifest)]
         IN  {[DownloadStart EXCEPT !.kind = "raised", !.error = "KeyError",
                                    !.key = path[Len(path)]]}
    ELSE IF http # "ok"
    THEN {[DownloadStart EXCEPT !.kind = "raised", !.requests = 1,
                                !.error = "RequestException"]}
    ELSE LET found == FirstCrx(extractall(prior, archive))
         IN  IF found = {}
             THEN {[DownloadStart EXCEPT !.kind = "raised", !.requests = 1,
                                         !.error = "FileNotFoundError"]}
             ELSE {[DownloadStart EXCEPT !.kind = "returned",
                                         !.requests = 1, !.paths = {f}] :
                      f \in found}

\* the calls of download_from_provider_website; the page is JSON or not
DownloadCalls ==
    {[f |-> "download", page |-> "json", manifest |-> m, http |-> h,
      prior |-> p, archive |-> a] :
        m \in Manifests, h \in {"ok", "error"}, p \in PriorContents,
        a \in Archives}
    \cup {[f |-> "download", page |-> "not_json", manifest |-> {},
           http |-> "ok", prior |-> {}, archive |-> a] : a \in Archives}

\* How the callees of download_and_extract_extension end: the crx-dl tool
\* run by download_from_chrome_webstore, login_to_website, and
\* download_from_provider_website.
WebstoreOutcomes == {"ok", "CalledProcessError"}

LoginResults == {"True", "None", "LoginFailedError"}

ProviderOutcomes ==
    {"ok", "JSONDecodeError", "KeyError", "RequestException",
     "FileNotFoundError"}

ExtractStart ==
    [kind |-> "none", error |-> "none", strategies |-> <<>>, logins |-> 0]

\* download_with_auth_check: login_to_website first when authentication is
\* needed and the data is there, then download_from_provider_website
download_with_auth_check(need_auth, auth_data, login, provider, acc) ==
    LET in == [acc EXCEPT !.strategies = Append(@, "provider"),
                          !.logins = IF need_auth /\ auth_data
                                     THEN @ + 1 ELSE @]
    IN  IF need_auth /\ auth_data /\ login = "LoginFailedError"
        THEN [in EXCEPT !.kind = "raised", !.error = login]
        ELSE IF provider = "ok"
        THEN [in EXCEPT !.kind = "returned"]
        ELSE [in EXCEPT !.kind = "raised", !.error = provider]

\* download_from_chrome_webstore, as download_and_extract_extension sees it
download_from_chrome_webstore(tool, acc) ==
    LET in == [acc EXCEPT !.strategies = Append(@, "webstore")]
    IN  IF tool = "ok"
        THEN [in EXCEPT !.kind = "returned"]
        ELSE [in EXCEPT !.kind = "raised", !.error = tool]

\* (mutation: when the strategy chosen by the URL fails, the other one is
\* tried before giving up)
download_and_extract_Fallback(c) ==
    LET auth_data == c.require_auth /\ ~c.webstore /\ c.auth_complete
        first == IF c.webstore
                 THEN download_from_chrome_webstore(c.tool, ExtractStart)
                 ELSE download_with_auth_check(c.require_auth, auth_data,
                                               c.login, c.provider,
                                               ExtractStart)
        second == IF c.webstore
                  THEN download_with_auth_check(c.require_auth, auth_data,
                                                c.login, c.provider, first)
                  ELSE download_from_chrome_webstore(c.tool, first)
        r == IF first.kind = "returned" THEN first ELSE second
    IN  IF c.require_auth /\ ~c.webstore /\ ~c.auth_complete
        THEN [r |-> [ExtractStart EXCEPT !.kind = "raised",
                                         !.error = "ValueError"],
              sessions |-> c.sessions]
        ELSE [r |-> r,
              sessions |-> IF r.kind = "returned" THEN c.sessions
                           ELSE safe_quit(c.sessions, c.driver)]

\* download_and_extract_extension: the result (kind, error, the strategies
\* run, the logins made) and the sessions as the call leaves them
download_and_extract_extension(c) ==
    LET auth_data == c.require_auth /\ ~c.webstore /\ c.auth_complete
        r == IF c.webstore
             THEN download_from_chrome_webstore(c.tool, ExtractStart)
             ELSE download_with_auth_check(c.require_auth, auth_data,
                                           c.login, c.provider, ExtractStart)
    IN  IF c.require_auth /\ ~c.webstore /\ ~c.auth_complete
        THEN [r |-> [ExtractStart EXCEPT !.kind = "raised",
                                         !.error = "ValueError"],
              sessions |-> c.sessions]
        ELSE [r |-> r,
              sessions |-> IF r.kind = "returned" THEN c.sessions
                           ELSE safe_quit(c.sessions, c.driver)]

\* the calls of download_and_extract_extension: whether the URL starts with
\* the Chrome Web Store prefix, the authentication settings, the session
\* passed (0: None; a session is live or not) and how each callee would end
ExtractCalls ==
    [f : {"extract"}, webstore : BOOLEAN, require_auth : BOOLEAN,
     auth_complete : BOOLEAN, sessions : {<<TRUE>>, <<FALSE>>},
     driver : 0..1, tool : WebstoreOutcomes, login : LoginResults,
     provider : ProviderOutcomes]

\* The key names configure_grass sends, as the strings they are.
NamedKeys ==
    {<<"T", "a", "b">>, <<"R", "e", "t", "u", "r", "n">>,
     <<"s", "p", "a", "c", "e">>, <<"E", "s", "c", "a", "p", "e">>}

\* the letters of the alphabet used here: str.isalnum() is true of a
\* non-empty string made of letters and digits only
AlnumChars ==
    {"a", "b", "c", "e", "n", "p", "r", "s", "t", "u", "E", "R", "T"}

isalnum(str) == str # <<>> /\ \A i \in 1..Len(str) : str[i] \in AlnumChars

\* the xdotool command send_xdotool_key builds (line 189): `type` for a
\* string holding a space or longer than one character and alphanumeric,
\* `key` for everything else
xdotool_command(key_sequence) ==
    IF \/ \E i \in 1..Len(key_sequence) : key_sequence[i] = " "
       \/ Len(key_sequence) > 1 /\ isalnum(key_sequence)
    THEN "type"
    ELSE "key"

\* the strings configure_grass hands to send_xdotool_key: the key names,
\* the identifier and the secret after its substitution
XdotoolCalls ==
    {[f |-> "xdotool", role |-> "named", key_sequence |-> k] :
        k \in NamedKeys}
    \cup {[f |-> "xdotool", role |-> "credential", key_sequence |-> t] :
             t \in Texts \cup {escaped_password(x) : x \in Texts}}

CInit ==
    /\ DesktopOff
    /\ BrowserOff
    /\ NodeOff
    /\ try_autologin = FALSE
    /\ email_set = FALSE
    /\ password_set = FALSE
    /\ max_retry_multiplier = 0
    /\ fn = "none"
    /\ \/ fin \in LaunchCalls
       \/ fin \in SearchCalls
       \/ fin \in KillCalls
       \/ fin \in BackoffCalls
       \/ fin \in CredentialCalls
       \/ fin \in LoginCalls
       \/ fin \in ConnectCalls
       \/ fin \in DownloadCalls
       \/ fin \in ExtractCalls
       \/ fin \in XdotoolCalls
    /\ fout = <<>>

CallLaunch ==
    /\ fn = "none" /\ fin.f = "launch"
    /\ fn' = "launch"
    /\ fout' = launch_grass_with_retries(fin.max_attempts, fin.outs)
    /\ UNCHANGED <<fin, dvars, bvars, nvars>>

CallSearch ==
    /\ fn = "none" /\ fin.f = "search"
    /\ fn' = "search"
    /\ fout' = search_windows_by_name(fin.max_attempts, fin.outs)
    /\ UNCHANGED <<fin, dvars, bvars, nvars>>

CallKill ==
    /\ fn = "none" /\ fin.f = "kill"
    /\ fn' = "kill"
    /\ fout' \in kill_process(fin.proc)
    /\ UNCHANGED <<fin, dvars, bvars, nvars>>

\* kill_process once more on the process the first call left behind
CallKillAgain ==
    /\ fn = "kill"
    /\ fn' = "kill_again"
    /\ fin' = [f |-> "kill", proc |-> fout]
    /\ fout' \in kill_process(fout)
    /\ UNCHANGED <<dvars, bvars, nvars>>

\* the two backoff_time values of lines 114-118, in the order slept
CallBackoff ==
    /\ fn = "none" /\ fin.f = "backoff"
    /\ fn' = "backoff"
    /\ fout' = <<backoff_time(fin.jitters[1], fin.k, fin.retry_multiplier),
                 backoff_time(fin.jitters[2], fin.k + 1,
                              fin.retry_multiplier)>>
    /\ UNCHANGED <<fin, dvars, bvars, nvars>>

\* the texts of the two credential injections of one attempt
CallCredentials ==
    /\ fn = "none" /\ fin.f = "credentials"
    /\ fn' = "credentials"
    /\ fout' = credential_texts(fin.email_username, fin.password)
    /\ UNCHANGED <<fin, dvars, bvars, nvars>>

CallLogin ==
    /\ fn = "none" /\ fin.f = "login"
    /\ fn' = "login"
    /\ fout' = login_to_website(fin.max_retries, fin.outs)
    /\ UNCHANGED <<fin, dvars, bvars, nvars>>

CallConnect ==
    /\ fn = "none" /\ fin.f = "connect"
    /\ fn' = "connect"
    /\ fout' = check_and_connect(fin.max_retries, fin.outs)
    /\ UNCHANGED <<fin, dvars, bvars, nvars>>

CallDownload ==
    /\ fn = "none" /\ fin.f = "download"
    /\ fn' = "download"
    /\ fout' \in download_from_provider_website(fin.page, fin.manifest,
                                               fin.http, fin.prior,
                                               fin.archive)
    /\ UNCHANGED <<fin, dvars, bvars, nvars>>

CallExtract ==
    /\ fn = "none" /\ fin.f = "extract"
    /\ fn' = "extract"
    /\ fout' = download_and_extract_extension(fin)
    /\ UNCHANGED <<fin, dvars, bvars, nvars>>

CallXdotool ==
    /\ fn = "none" /\ fin.f = "xdotool"
    /\ fn' = "xdotool"
    /\ fout' = [cmd |-> xdotool_command(fin.key_sequence)]
    /\ UNCHANGED <<fin, dvars, bvars, nvars>>

CNext ==
    \/ CallLaunch
    \/ CallSearch
    \/ CallKill
    \/ CallKillAgain
    \/ CallBackoff
    \/ CallCredentials
    \/ CallLogin
    \/ CallConnect
    \/ CallDownload
    \/ CallExtract
    \/ CallXdotool

SpecCalls == CInit /\ [][CNext]_vars

(***************************************************************************)
(* Properties of the helper functions                                      *)
(***************************************************************************)

\* C12: when a start of launch_grass_with_retries finds the executable
\* missing, the call returns None right there: no settle wait follows that
\* start and no further start is made, whatever max_attempts (>= 1) is; with
\* the executable missing from the beginning that is exactly one start and
\* no settle wait.
C12_MissingExecutableFailsAtOnce ==
    fn = "launch" =>
        \A i \in 1..fin.max_attempts :
            (fin.outs[i] = "missing"
             /\ \A j \in 1..(i - 1) : fin.outs[j] = "dead") =>
                /\ fout.result = 0
                /\ fout.popens = i
                /\ fout.settles = i - 1
                /\ Len(fout.started) = i - 1

C12_Witness ==
    /\ fn = "launch" /\ fin.max_attempts > 1 /\ fin.outs[1] = "missing"
    /\ fout.result = 0 /\ fout.popens = 1 /\ fout.settles = 0

\* C13: one call of launch_grass_with_retries starts at most max_attempts
\* processes, each but the last one started was seen dead after its settle
\* wait, a returned process is the last one started and was seen alive after
\* its settle wait, and None is returned exactly when every started process
\* was seen dead or the executable was missing.
C13_LaunchContract ==
    fn = "launch" =>
        LET n == Len(fout.started)
        IN  /\ fout.popens <= fin.max_attempts
            /\ n <= fout.popens
            /\ fout.settles = n
            /\ \A i \in 1..(n - 1) : ~fout.started[i].alive
            /\ fout.result # 0 =>
                  (fout.result = n /\ fout.started[n].alive)
            /\ fout.result = 0 <=>
                  (\/ fout.popens > n
                   \/ \A i \in 1..n : ~fout.started[i].alive)

C13_Witness ==
    /\ fn = "launch" /\ Len(fout.started) > 1
    /\ fout.result = Len(fout.started)
    /\ fout.started[fout.result].alive

\* C14: kill_process leaves the process not alive; a second call on the
\* same process, and any call on a process that has already ended, sends no
\* signal and leaves the process as it was.
C14_KillIdempotent ==
    fn \in {"kill", "kill_again"} =>
        /\ ~fout.alive
        /\ fn = "kill_again" => fout = fin.proc
        /\ ~fin.proc.alive =>
              /\ fout.sigs = fin.proc.sigs
              /\ fout.term = fin.proc.term /\ fout.kill = fin.proc.kill
              /\ fout.code = fin.proc.code /\ fout.grace = fin.proc.grace

C14_Witness ==
    fn = "kill_again" /\ fin.proc.sigs # <<>> /\ fout = fin.proc

\* C15: kill_process on a process that is running when it is polled sends
\* SIGTERM first; SIGKILL is sent only after the wait of the grace period
\* timed out, and a process that ended within the grace period gets SIGTERM
\* only.
C15_GracefulBeforeForced ==
    fn = "kill" =>
        /\ (fin.proc.alive /\ ~fout.self) =>
              (fout.sigs # <<>> /\ fout.sigs[1] = "SIGTERM")
        /\ fout.kill =>
              (fout.grace = "expired" /\ fout.sigs = <<"SIGTERM", "SIGKILL">>)
        /\ fout.grace = "exited" =>
              (~fout.kill /\ fout.sigs = <<"SIGTERM">>)

C15_Witness ==
    /\ fn = "kill" /\ fin.proc.alive
    /\ fout.grace = "exited" /\ fout.sigs = <<"SIGTERM">> /\ ~fout.alive

\* C16: search_windows_by_name sleeps its initial wait first and then makes
\* at most max_attempts searches; when a search finds windows the call
\* returns that (non-empty) list and makes no further search; it returns
\* None exactly when none of the searches it made found a window.
C16_SearchContract ==
    fn = "search" =>
        LET n == fout.searches
            ev == fout.events
        IN  /\ ev[1] = "initial_wait"
            /\ \A i \in 2..Len(ev) : ev[i] # "initial_wait"
            /\ Cardinality({i \in 1..Len(ev) : ev[i] = "search"}) = n
            /\ n <= fin.max_attempts
            /\ fout.found <=> \E i \in 1..n : Hit(fin.outs, i)
            /\ fout.found =>
                  /\ Hit(fin.outs, n)
                  /\ fout.windows = fin.outs[n].wins
                  /\ fout.windows # <<>>
                  /\ \A i \in 1..(n - 1) : ~Hit(fin.outs, i)
            /\ ~fout.found => fout.windows = <<>>

C16_Witness ==
    /\ fn = "search" /\ fout.found
    /\ 1 < fout.searches /\ fout.searches < fin.max_attempts
    /\ Hit(fin.outs, fin.max_attempts)
    /\ fin.outs[fin.max_attempts].wins # fout.windows

\* C17 (as claimed): the backoff slept after a failed search is never
\* smaller than the backoff slept after the failed search before it.
C17_BackoffNonDecreasing ==
    fn = "backoff" => fout[2] >= fout[1]

\* C23 (as claimed): neither credential text handed to the injection
\* command begins with the sign character.
C23_NoLeadingSignInjected ==
    fn = "credentials" =>
        (fout.identifier[1] # "-" /\ fout.secret[1] # "-")

\* C29 (as claimed): login_to_website returns True after a login or raises:
\* whatever max_retry_multiplier is, it does not return without the login,
\* it makes at most max_retry_multiplier attempts, and it raises
\* LoginFailedError when its last attempt fails.
C29_LoginTrueOrRaises ==
    fn = "login" =>
        /\ \/ fout.kind = "True" /\ fout.marker
           \/ fout.kind = "raised"
        /\ fout.attempts <= fin.max_retries
        /\ (fout.attempts = fin.max_retries /\ ~fout.marker) =>
              (fout.kind = "raised" /\ fout.error = "LoginFailedError")

\* C30 (as claimed): at the start of every attempt of login_to_website and
\* of check_and_connect, no tab opened by an earlier attempt of the same
\* call is still open.
C30_NoTabLeftAtRetry ==
    fn \in {"login", "connect"} =>
        \A i \in 1..Len(fout.openAtStart) : fout.openAtStart[i] = 0

\* the four key paths download_from_provider_website requires
RequiredPaths ==
    {<<"result">>, <<"result", "data">>, <<"result", "data", "version">>,
     <<"result", "data", "links", "linux">>}

\* C24: with any one of the four required key paths removed from a complete
\* manifest, download_from_provider_website raises KeyError carrying the
\* key that is missing, a different one for each of the four paths; no
\* default takes the place of the value and requests.get is not called.
C24_MissingManifestKey ==
    /\ \A p, q \in RequiredPaths : p # q => p[Len(p)] # q[Len(q)]
    /\ fn = "download" =>
          \A p \in RequiredPaths :
              (fin.page = "json" /\ fin.manifest = Without(p)) =>
                  /\ fout.kind = "raised" /\ fout.error = "KeyError"
                  /\ fout.key = p[Len(p)]
                  /\ fout.paths = {} /\ fout.requests = 0

C24_Witness ==
    /\ fn = "download" /\ fin.page = "json"
    /\ fin.manifest = Without(<<"result", "data", "version">>)
    /\ <<"result", "data", "links", "linux">> \in fin.manifest
    /\ fout.kind = "raised" /\ fout.key = "version" /\ fout.requests = 0

\* C25 (as claimed): whatever the extension directory held before, when the
\* downloaded archive holds exactly one .crx file the call returns the path
\* of that file, and when it holds none the call raises FileNotFoundError
\* and returns no path.
C25_ReturnsArchiveCrx ==
    (fn = "download" /\ fin.page = "json" /\ fin.manifest = AllPaths
     /\ fin.http = "ok") =>
        LET crx == {f \in fin.archive : f.ext = "crx"}
        IN  /\ crx # {} => (fout.kind = "returned" /\ fout.paths = crx)
            /\ crx = {} =>
                  /\ fout.kind = "raised" /\ fout.paths = {}
                  /\ fout.error = "FileNotFoundError"

\* how the strategy the URL prefix selects ends in a call
ChosenFails(c) ==
    IF c.webstore THEN c.tool # "ok"
    ELSE \/ c.provider # "ok"
         \/ c.require_auth /\ c.auth_complete /\ c.login = "LoginFailedError"

\* C26: download_and_extract_extension runs the Chrome Web Store tool
\* exactly when the URL starts with the Chrome Web Store prefix and never
\* runs more than one strategy; when the strategy it chose fails, the other
\* one is not run, the session passed is quit and the failure of the chosen
\* strategy is what the caller gets.
C26_StrategyByPrefixNoFallback ==
    fn = "extract" =>
        LET run == {fout.r.strategies[i] : i \in 1..Len(fout.r.strategies)}
        IN  /\ "webstore" \in run <=> fin.webstore
            /\ "provider" \in run => ~fin.webstore
            /\ Len(fout.r.strategies) <= 1
            /\ (run # {} /\ ChosenFails(fin)) =>
                  /\ Len(fout.r.strategies) = 1
                  /\ fout.r.kind = "raised"
                  /\ fout.r.error = (IF fin.webstore THEN fin.tool
                                     ELSE IF fin.require_auth
                                             /\ fin.login = "LoginFailedError"
                                     THEN fin.login ELSE fin.provider)
                  /\ fin.driver # 0 => ~fout.sessions[fin.driver]

C26_Witness ==
    /\ fn = "extract" /\ ~fin.webstore /\ fin.provider = "KeyError"
    /\ fin.tool = "ok" /\ fin.driver = 1 /\ fin.sessions[1]
    /\ fout.r.kind = "raised" /\ fout.r.strategies = <<"provider">>
    /\ ~fout.sessions[1]

(***************************************************************************)
(* Further properties of grass-desktop_main.py                             *)
(***************************************************************************)

\* C31 (as claimed): whatever MAX_RETRY_MULTIPLIER is, the retried
\* operations of main are invoked with max_attempts >= 1, so that a launch
\* failure is reported only after the executable was started at least once.
C31_MaxAttemptsAtLeastOne ==
    pc # "start" => launch_configure_max_attempts >= 1

\* C32: with autologin disabled, or the identifier or the secret missing,
\* main goes from the launch straight to the wait on the launched process:
\* configure_grass is not invoked, no window is searched or focused, no key
\* or text is injected, and the script signals the process only when it is
\* interrupted.
C32_ManualFallback ==
    ~(try_autologin /\ email_set /\ password_set) =>
        /\ pc \notin ConfiguringPcs /\ cfgResult = "none"
        /\ ~hist.searched /\ ~hist.focusCalled /\ ~hist.injected
        /\ pc = "wait" => (grass_proc # 0 /\ Mode = "Manual")
        /\ (pc # "start" /\ exitVia # "launch_failed") => grass_proc # 0
        /\ NoSignalSent \/ exitVia = "interrupt"

C32_Witness ==
    /\ pc = "wait" /\ try_autologin /\ email_set /\ ~password_set
    /\ grass_proc # 0 /\ procs[grass_proc].alive /\ ~hist.searched

\* C33 (as claimed): send_xdotool_key sends each key name configure_grass
\* uses with the xdotool key command and each credential text with the
\* xdotool type command.
C33_KeysPressedTextsTyped ==
    fn = "xdotool" =>
        /\ fin.role = "named" => fout.cmd = "key"
        /\ fin.role = "credential" => fout.cmd = "type"

\* C34: within an attempt of configure_grass the injections follow the
\* fixed sequence, and an injection is made only after every earlier one of
\* the same attempt reported success: the secret after the identifier, the
\* submit key after the secret.
C34_InjectionOrder ==
    pc = "keys" =>
        /\ keyStep \in 1..Len(KeyPlan)
        /\ att.keysOK = keyStep - 1 /\ ~att.keyFail
        /\ KeyPlan[keyStep] = "PW" =>
              \E j \in 1..(keyStep - 1) :
                  KeyPlan[j] = "ID" /\ att.keysOK >= j
        /\ IsSubmit(keyStep) =>
              (KeyPlan[keyStep - 1] = "PW" /\ att.keysOK >= keyStep - 1)
        /\ \A j \in 1..Len(KeyPlan) :
              KeyPlan[j] \in {"ID", "PW"} =>
                  Cardinality({i \in 1..Len(KeyPlan) :
                                  KeyPlan[i] = KeyPlan[j]}) = 1

C34_Witness ==
    /\ pc = "keys" /\ IsSubmit(keyStep) /\ hist.injectFail
    /\ att.keysOK = keyStep - 1

(***************************************************************************)
(* Further properties of grass_main.py                                     *)
(***************************************************************************)

\* C35 (as claimed): for max_retry_multiplier >= 1, every attempt of
\* check_and_connect that clicks the CONNECT GRASS button is followed by
\* another attempt, which looks for the 'Grass is Connected' marker again,
\* before the call returns or raises.
C35_RecheckAfterClick ==
    (fn = "connect" /\ fin.max_retries >= 1) =>
        \A i \in 1..fout.attempts :
            fin.outs[i] = "clicked" => i < fout.attempts

\* C39 (as claimed): when main reaches its exit after the wait phase, by
\* the end of the process it waited on or by an interrupt, every Grass
\* process launched during the run has exited, one relaunched inside
\* configure_grass included.
C39_NoProcessLeftBehind ==
    (pc = "exited" /\ exitVia \in {"wait_returned", "interrupt"}) =>
        \A i \in 1..Len(procs) : ~procs[i].alive

\* the browser sessions main started that are live
LiveSessions == {i \in 1..Len(sessions) : sessions[i]}

\* C40: at most one browser session started by main is live at any time, so
\* that a session is started only when every session started before it has
\* been quit; and when main returns (a return statement or the end of the
\* function, the monitoring loop's own handling of Ctrl+C included) no
\* session it started is live.
C40_OneSessionAtATime ==
    /\ Cardinality(LiveSessions) <= 1
    /\ \A i \in LiveSessions : i = Len(sessions)
    /\ (bpc = "finished" /\ (~bhist.interrupted \/ autologin_successful)) =>
          LiveSessions = {}

C40_Witness ==
    /\ bpc = "manual_idle" /\ Len(sessions) >= 4
    /\ LiveSessions = {Len(sessions)} /\ driver = Len(sessions)

(***************************************************************************)
(* grass-node_main.py                                                      *)
(***************************************************************************)

\* login_to_website of grass-node_main.py from attempt k (1-based) on: on
\* an exception close the tab and go on, or, at the last attempt, quit the
\* session and re-raise
RECURSIVE NodeLoginFrom(_, _, _, _)
NodeLoginFrom(k, max_retries, outs, acc) ==
    IF k > max_retries
    THEN acc
    ELSE LET now == [acc EXCEPT !.attempts = @ + 1, !.open = @ + 1,
                                !.openAtStart = Append(@, acc.open)]
         IN  IF outs[k] = "ok"
             THEN [now EXCEPT !.kind = "True", !.marker = TRUE]
             ELSE IF k < max_retries
             THEN NodeLoginFrom(k + 1, max_retries, outs,
                                [now EXCEPT !.open = @ - 1])
             ELSE [now EXCEPT !.kind = "raised",
                              !.error = IF outs[k] = "element_error"
                                        THEN "TimeoutException"
                                        ELSE "Exception"]

node_login_to_website(max_retries, outs) ==
    NodeLoginFrom(1, max_retries, outs, CallStart)

\* check_and_connect of grass-node_main.py from attempt k (1-based) on.
\* After a click the loop goes to its next iteration; a missing button is
\* retried until the last attempt; any other exception is raised at once;
\* after the loop the function returns False.
RECURSIVE NodeConnectFrom(_, _, _, _)
NodeConnectFrom(k, max_retries, outs, acc) ==
    IF k > max_retries
    THEN [acc EXCEPT !.kind = "False"]
    ELSE LET now == [acc EXCEPT !.attempts = @ + 1, !.open = @ + 1,
                                !.openAtStart = Append(@, acc.open)]
         IN  CASE outs[k] = "marker" ->
                    [now EXCEPT !.kind = "returned", !.marker = TRUE]
               [] outs[k] = "clicked" ->
                    NodeConnectFrom(k + 1, max_retries, outs, now)
               [] outs[k] = "nobutton" ->
                    IF k < max_retries
                    THEN NodeConnectFrom(k + 1, max_retries, outs,
                                         [now EXCEPT !.open = @ - 1])
                    ELSE [now EXCEPT !.kind = "raised",
                                     !.error = "Exception"]
               [] outs[k] = "click_error" ->
                    [now EXCEPT !.kind = "raised", !.open = @ - 1,
                                !.error = "Exception"]
               [] OTHER ->
                    [now EXCEPT !.kind = "raised",
                                !.error = "WebDriverException"]

\* kind: "returned" (the window handle), "False" or "raised"
node_check_and_connect(max_retries, outs) ==
    NodeConnectFrom(1, max_retries, outs, CallStart)

\* the session main's driver refers to is live
NodeDriverLive(nd) == nd.driver # 0 /\ nd.sessions[nd.driver]

\* The except block of main's retry loop (lines 288-296) after a failure
\* with error err in state nd: safe_quit(driver), then the next attempt
\* after a backoff, or the exception re-raised at the last attempt.  With no
\* session ever started the name driver is unbound and evaluating it raises
\* UnboundLocalError inside the handler.
NodeFailed(nd, err) ==
    IF nd.driver = 0
    THEN [nd EXCEPT !.pc = "n_done", !.exit = "raised",
                    !.error = "UnboundLocalError"]
    ELSE LET q == [nd EXCEPT !.sessions = safe_quit(@, nd.driver)]
         IN  IF nd.attempt < max_retry_multiplier
             THEN [q EXCEPT !.pc = "n_init", !.attempt = @ + 1]
             ELSE [q EXCEPT !.pc = "n_done", !.exit = "raised",
                            !.error = err]

NodeInit ==
    /\ DesktopOff
    /\ BrowserOff
    /\ CallsOff
    /\ try_autologin = FALSE
    /\ email_set \in BOOLEAN
    /\ password_set \in BOOLEAN
    /\ max_retry_multiplier \in 0..MaxMultiplier
    /\ \E n \in 1..MaxExtensions :
          node = [NodeIdle EXCEPT !.pc = "n_start", !.n_ext = n]

\* main up to its retry loop: return without credentials; range(1, 1) is
\* empty when MAX_RETRY_MULTIPLIER is 0 and main ends
NodeStart ==
    /\ node.pc = "n_start"
    /\ node' = IF ~email_set \/ ~password_set \/ max_retry_multiplier < 1
               THEN [node EXCEPT !.pc = "n_done", !.exit = "returned"]
               ELSE [node EXCEPT !.pc = "n_init", !.attempt = 1]
    /\ UNCHANGED <<dvars, bvars, cvars>>

\* a setup pass begins: initialize_driver() (line 251)
NodeInitDriver ==
    /\ node.pc = "n_init"
    /\ \E ok \in BOOLEAN :
          LET nd == [node EXCEPT !.passes = @ + 1]
          IN  node' = IF ok
                      THEN [nd EXCEPT !.sessions = Append(@, TRUE),
                                      !.driver = Len(nd.sessions) + 1,
                                      !.handles = <<>>, !.ext = 1,
                                      !.pc = "n_login1"]
                      ELSE NodeFailed(nd, "WebDriverException")
    /\ UNCHANGED <<dvars, bvars, cvars>>

\* login_to_website before the download of one extension (line 256)
NodeLogin1 ==
    /\ node.pc = "n_login1"
    /\ \E outs \in LoginInputs(max_retry_multiplier) :
          LET r == node_login_to_website(max_retry_multiplier, outs)
          IN  node' = IF r.kind = "raised"
                      THEN NodeFailed([node EXCEPT !.sessions =
                                          safe_quit(@, node.driver)],
                                      r.error)
                      ELSE [node EXCEPT !.pc = "n_download"]
    /\ UNCHANGED <<dvars, bvars, cvars>>

\* download_and_extract_extension for one extension (lines 259-260); a
\* failure quits the session and is re-raised
NodeDownload ==
    /\ node.pc = "n_download"
    /\ \E ok \in BOOLEAN :
          node' = IF ~ok
                  THEN NodeFailed([node EXCEPT !.sessions =
                                      safe_quit(@, node.driver)],
                                  "Exception")
                  ELSE IF node.ext < node.n_ext
                  THEN [node EXCEPT !.pc = "n_login1", !.ext = @ + 1]
                  ELSE [node EXCEPT !.pc = "n_reinit"]
    /\ UNCHANGED <<dvars, bvars, cvars>>

\* safe_quit(driver), then initialize_driver(crx_file_paths) (263-266)
NodeReinit ==
    /\ node.pc = "n_reinit"
    /\ \E ok \in BOOLEAN :
          LET nd == [node EXCEPT !.sessions = safe_quit(@, node.driver)]
          IN  node' = IF ok
                      THEN [nd EXCEPT !.sessions = Append(@, TRUE),
                                      !.driver = Len(nd.sessions) + 1,
                                      !.ext = 1, !.pc = "n_login2"]
                      ELSE NodeFailed(nd, "WebDriverException")
    /\ UNCHANGED <<dvars, bvars, cvars>>

\* login_to_website before the connection of one extension (line 271)
NodeLogin2 ==
    /\ node.pc = "n_login2"
    /\ \E outs \in LoginInputs(max_retry_multiplier) :
          LET r == node_login_to_website(max_retry_multiplier, outs)
          IN  node' = IF r.kind = "raised"
                      THEN NodeFailed([node EXCEPT !.sessions =
                                          safe_quit(@, node.driver)],
                                      r.error)
                      ELSE [node EXCEPT !.pc = "n_connect"]
    /\ UNCHANGED <<dvars, bvars, cvars>>

\* check_and_connect for one extension; what it returns is stored in
\* extension_window_handles (lines 272-273).  After the last extension
\* 'All extensions are connected successfully' and the monitoring loop.
NodeConnect ==
    /\ node.pc = "n_connect"
    /\ \E outs \in ConnectInputs(max_retry_multiplier) :
          LET r == node_check_and_connect(max_retry_multiplier, outs)
              nd == [node EXCEPT !.handles =
                        Append(@, IF r.kind = "returned" THEN "handle"
                                                         ELSE r.kind)]
          IN  node' = IF r.kind = "raised"
                      THEN NodeFailed(node, r.error)
                      ELSE IF node.ext < node.n_ext
                      THEN [nd EXCEPT !.pc = "n_login2", !.ext = @ + 1]
                      ELSE [nd EXCEPT !.pc = "n_monitor"]
    /\ UNCHANGED <<dvars, bvars, cvars>>

\* One round of the monitoring loop (lines 277-286): refresh_and_check for
\* every extension.  Any exception (a lost connection, a session that was
\* quit, a stored value that is no handle) is caught in the loop: the
\* session is quit, the script sleeps and `continue` goes on with the
\* same while loop.
NodeMonitor ==
    /\ node.pc = "n_monitor"
    /\ \E connected \in BOOLEAN :
          IF /\ connected /\ NodeDriverLive(node)
             /\ \A i \in 1..Len(node.handles) : node.handles[i] = "handle"
          THEN UNCHANGED node
          ELSE node' = [node EXCEPT !.sessions = safe_quit(@, node.driver),
                                    !.lost = TRUE, !.tick = ~@]
    /\ UNCHANGED <<dvars, bvars, cvars>>

\* KeyboardInterrupt: no except clause names it, it ends the script
NodeInterrupt ==
    /\ node.pc \notin {"off", "n_done"}
    /\ node' = [node EXCEPT !.pc = "n_done", !.exit = "interrupted"]
    /\ UNCHANGED <<dvars, bvars, cvars>>

NodeNext ==
    \/ NodeStart
    \/ NodeInitDriver
    \/ NodeLogin1
    \/ NodeDownload
    \/ NodeReinit
    \/ NodeLogin2
    \/ NodeConnect
    \/ NodeMonitor
    \/ NodeInterrupt

SpecNode == NodeInit /\ [][NodeNext]_vars

\* the steps the script takes by itself; Ctrl+C is the user's
NodeProgramStep ==
    \/ NodeStart
    \/ NodeInitDriver
    \/ NodeLogin1
    \/ NodeDownload
    \/ NodeReinit
    \/ NodeLogin2
    \/ NodeConnect
    \/ NodeMonitor

FairSpecNode == NodeInit /\ [][NodeNext]_vars /\ WF_vars(NodeProgramStep)

(***************************************************************************)
(* Properties of grass-node_main.py                                        *)
(***************************************************************************)

\* C36 (as claimed): after a refresh check of the monitoring loop failed,
\* main eventually begins a new setup pass (a new browser session, login
\* and connection again), unless the script was ended.
C36_LossLeadsToNewPass ==
    \A n \in 0..(MaxMultiplier + 1) :
        (node.lost /\ node.passes = n) ~>
            (node.passes > n \/ node.pc = "n_done")

\* C37 (as claimed): the monitoring loop is reached only with, for every
\* extension, the window handle check_and_connect returned after it saw the
\* 'Grass is Connected' marker; nothing else is stored as a handle.
C37_HandlesAreHandles ==
    /\ \A i \in 1..Len(node.handles) : node.handles[i] = "handle"
    /\ node.pc = "n_monitor" => Len(node.handles) = node.n_ext

\* C38 (as claimed): an exception leaves main only when the last attempt
\* failed; a failure in an earlier attempt, the first browser
\* initialization included, is followed by the next attempt.
C38_RaisedOnlyAtLastAttempt ==
    node.exit = "raised" => node.attempt = max_retry_multiplier

====
